---- MODULE Spec2Model ----
(***************************************************************************)
(* Model of the discord-player Player class (src/unnamed/part_000):        *)
(* the session table (createQueue / getQueue / deleteQueue) and the        *)
(* extractor chain of Player.search, with the extractor registry           *)
(* (use / unuse).                                                          *)
(*                                                                         *)
(* JavaScript runs every synchronous function to completion, so a          *)
(* synchronous method is one action; an async method is cut at its awaits. *)
(***************************************************************************)
EXTENDS Integers, Sequences, FiniteSets, TLC

VARIABLES
    queues,      \* Player.queues: Map, as the sequence of its entries in insertion order
    qobj,        \* the Queue objects constructed so far, by instance id
    callers,     \* the tasks that call createQueue/getQueue/deleteQueue
    made,        \* history: per key, the instances constructed since the last deleteQueue of it
    last,        \* history: the last session-table operation and its outcome
    extractors,  \* Player.extractors: Map, as the sequence of its entries in insertion order
    srch,        \* the search call in flight (or finished): position, options, log, result
    rlast,       \* history: the last use / unuse call, what it returned or threw
    listeners,   \* the EventEmitter's listeners, per event name, in the order they were added
    elast,       \* history: the last emit call and what it did
    cache,       \* VoiceUtils.cache: Map from channel id to StreamDispatcher, as its entries
    conns,       \* the voice connections requested so far, by id: channel and state
    disps,       \* the StreamDispatchers constructed so far, by id: the connection each owns
    vcalls,      \* the connect calls, per task: position, channel, connection, outcome
    vlast,       \* history: the last getConnection call and what it returned
    iter,        \* the generator of Player[Symbol.iterator]: position, array, last value
    feed,        \* the voice channels as the client reports them: empty or not, for how long
    trk,         \* the Track followed: what it was made from, its fields, durationMS as read
    esc          \* the escapeMarkdown call followed: text, options, result, result of escaping it again

vars == <<queues, qobj, callers, made, last, extractors, srch, rlast, listeners, elast,
          cache, conns, disps, vcalls, vlast, iter, feed, trk, esc>>
qvars == <<queues, qobj, callers, made, last>>
svars == <<extractors, srch>>
rvars == <<rlast>>
evars == <<listeners, elast>>
vovars == <<cache, conns, disps, vcalls, vlast>>
ivars == <<iter>>
fvars == <<feed>>
tvars == <<trk, esc>>

----------------------------------------------------------------------------
(* Bounds *)

MaxQueues == 2
NumCallers == 2
MaxListeners == 2
MaxConns == 2
IdleDeadline == 2
MaxComponents == 3
MaxTitleLen == 1
MaxTextLen == 3
NumJoiners == 2

----------------------------------------------------------------------------
(* Map (discord.js Collection extends the built-in Map): entries keep      *)
(* insertion order; set on an existing key replaces the value in place.    *)

MapHas(m, k) == \E i \in 1..Len(m) : m[i].key = k

MapIndex(m, k) == CHOOSE i \in 1..Len(m) : m[i].key = k

MapGet(m, k) == m[MapIndex(m, k)].val

MapSet(m, k, v) ==
    IF MapHas(m, k)
    THEN [m EXCEPT ![MapIndex(m, k)] = [key |-> k, val |-> v]]
    ELSE Append(m, [key |-> k, val |-> v])

MapDelete(m, k) ==
    IF MapHas(m, k)
    THEN LET p == MapIndex(m, k)
         IN  [i \in 1..(Len(m) - 1) |-> IF i < p THEN m[i] ELSE m[i + 1]]
    ELSE m

MapKeys(m) == {m[i].key : i \in 1..Len(m)}

\* The keys in insertion order.
MapKeySeq(m) == [i \in 1..Len(m) |-> m[i].key]

----------------------------------------------------------------------------
(* Session table *)

Keys == {"g1", "g2"}
Callers == 1..NumCallers

Undefined == 0                  \* the value of Map.get on an absent key

PlayerYtdlOptions == "player"   \* this.options.ytdlOptions of the Player
DefaultVolumeSmoothness == "0.08"

\* The queueInitOptions objects the callers pass.
OptionChoices ==
    { [metadata |-> "undefined", volumeSmoothness |-> "undefined", ytdlOptions |-> "undefined"],
      [metadata |-> "m1",        volumeSmoothness |-> "0.5",       ytdlOptions |-> "custom"] }

\* a ??= b
NullishAssign(a, b) == IF a = "undefined" THEN b ELSE a

\* The Queue that createQueue constructs for (dmGuild, queueInitOptions).
NewQueue(dmGuild, o) ==
    [ key              |-> dmGuild,
      metadata         |-> o.metadata,
      volumeSmoothness |-> NullishAssign(o.volumeSmoothness, DefaultVolumeSmoothness),
      ytdlOptions      |-> NullishAssign(o.ytdlOptions, PlayerYtdlOptions),
      destroyed        |-> FALSE ]

NextId == Cardinality(DOMAIN qobj) + 1

getQueue(m, dmGuild) == IF MapHas(m, dmGuild) THEN MapGet(m, dmGuild) ELSE Undefined

\* Queue.destroy(): a destroyed Queue rejects every later call.
QueueDestroyThrows(objs, q) == objs[q].destroyed

QueueDestroy(objs, q) == [objs EXCEPT ![q].destroyed = TRUE]

\* queueInitOptions = {}
NoOptions == [metadata |-> "undefined", volumeSmoothness |-> "undefined", ytdlOptions |-> "undefined"]

IdleCaller == [pc |-> "idle", key |-> "g1", ret |-> Undefined, stale |-> FALSE]

NoOp == [op |-> "none", key |-> "g1", existed |-> FALSE, meta |-> "undefined",
         caught |-> FALSE, threw |-> FALSE]

\* A task decides to call createQueue for key k.
CallerInvoke(c, k) ==
    /\ callers[c].pc = "idle"
    /\ callers' = [callers EXCEPT ![c] = [IdleCaller EXCEPT !.pc = "ready", !.key = k]]
    /\ UNCHANGED <<queues, qobj, made, last>>

createQueue_noCheck(c, o) ==
    LET k == callers[c].key
        id == NextId
    IN  /\ callers[c].pc = "ready"
        /\ id <= MaxQueues
        /\ qobj' = [i \in DOMAIN qobj \cup {id} |->
                      IF i = id THEN NewQueue(k, o) ELSE qobj[i]]
        /\ queues' = MapSet(queues, k, id)
        /\ made' = [made EXCEPT ![k] = @ \cup {id}]
        /\ callers' = [callers EXCEPT ![c].pc = "returned", ![c].ret = id]
        /\ last' = [NoOp EXCEPT !.op = "createQueue", !.key = k,
                                !.existed = MapHas(queues, k), !.meta = o.metadata]

createQueue_noSet(c, o) ==
    LET k == callers[c].key
        id == NextId
    IN  /\ callers[c].pc = "ready"
        /\ IF MapHas(queues, k)
           THEN /\ callers' = [callers EXCEPT ![c].pc = "returned",
                                              ![c].ret = MapGet(queues, k)]
                /\ last' = [NoOp EXCEPT !.op = "createQueue", !.key = k,
                                        !.existed = TRUE, !.meta = o.metadata]
                /\ UNCHANGED <<queues, qobj, made>>
           ELSE /\ id <= MaxQueues
                /\ qobj' = [i \in DOMAIN qobj \cup {id} |->
                              IF i = id THEN NewQueue(k, o) ELSE qobj[i]]
                /\ made' = [made EXCEPT ![k] = @ \cup {id}]
                /\ callers' = [callers EXCEPT ![c].pc = "returned", ![c].ret = id]
                /\ last' = [NoOp EXCEPT !.op = "createQueue", !.key = k,
                                        !.existed = FALSE, !.meta = o.metadata]
                /\ UNCHANGED queues

\* Player.createQueue(dmGuild, queueInitOptions), called by task c with
\* options o.
createQueue(c, o) ==
    LET k == callers[c].key
        id == NextId
    IN  /\ callers[c].pc = "ready"
        /\ IF MapHas(queues, k)
           THEN /\ callers' = [callers EXCEPT ![c].pc = "returned",
                                              ![c].ret = MapGet(queues, k)]
                /\ last' = [NoOp EXCEPT !.op = "createQueue", !.key = k,
                                        !.existed = TRUE, !.meta = o.metadata]
                /\ UNCHANGED <<queues, qobj, made>>
           ELSE /\ id <= MaxQueues
                /\ qobj' = [i \in DOMAIN qobj \cup {id} |->
                              IF i = id THEN NewQueue(k, o) ELSE qobj[i]]
                /\ queues' = MapSet(queues, k, id)
                /\ made' = [made EXCEPT ![k] = @ \cup {id}]
                /\ callers' = [callers EXCEPT ![c].pc = "returned", ![c].ret = id]
                /\ last' = [NoOp EXCEPT !.op = "createQueue", !.key = k,
                                        !.existed = FALSE, !.meta = o.metadata]

\* A task calls Player.getQueue(k).
GetQueueCall(k) ==
    /\ last' = [NoOp EXCEPT !.op = "getQueue", !.key = k,
                            !.existed = getQueue(queues, k) # Undefined]
    /\ UNCHANGED <<queues, qobj, made, callers>>

\* The effect of deleteQueue(k) on the callers: those holding the result of
\* an earlier createQueue(k) now hold a deleted Queue.
MarkStale(k) ==
    [c \in Callers |->
        IF callers[c].key = k /\ callers[c].pc = "returned"
        THEN [callers[c] EXCEPT !.stale = TRUE]
        ELSE callers[c]]

deleteQueue_noCatch(k) ==
    LET prev == getQueue(queues, k)
        raises == prev = Undefined \/ QueueDestroyThrows(qobj, prev)
    IN  /\ qobj' = IF raises THEN qobj ELSE QueueDestroy(qobj, prev)
        /\ queues' = IF raises THEN queues ELSE MapDelete(queues, k)
        /\ made' = IF raises THEN made ELSE [made EXCEPT ![k] = {}]
        /\ callers' = IF raises THEN callers ELSE MarkStale(k)
        /\ last' = [NoOp EXCEPT !.op = "deleteQueue", !.key = k,
                                !.existed = MapHas(queues, k),
                                !.caught = FALSE, !.threw = raises]

deleteQueue_deleteInTry(k) ==
    LET prev == getQueue(queues, k)
        raises == prev = Undefined \/ QueueDestroyThrows(qobj, prev)
    IN  /\ qobj' = IF raises THEN qobj ELSE QueueDestroy(qobj, prev)
        /\ queues' = IF raises THEN queues ELSE MapDelete(queues, k)
        /\ made' = IF raises THEN made ELSE [made EXCEPT ![k] = {}]
        /\ callers' = IF raises THEN callers ELSE MarkStale(k)
        /\ last' = [NoOp EXCEPT !.op = "deleteQueue", !.key = k,
                                !.existed = MapHas(queues, k),
                                !.caught = raises, !.threw = FALSE]

\* Player.deleteQueue(dmGuild): prev.destroy() inside try/catch, then the
\* entry is deleted whatever destroy did.
deleteQueue(k) ==
    LET prev == getQueue(queues, k)
        raises == prev = Undefined \/ QueueDestroyThrows(qobj, prev)
    IN  /\ qobj' = IF raises THEN qobj ELSE QueueDestroy(qobj, prev)
        /\ queues' = MapDelete(queues, k)
        /\ made' = [made EXCEPT ![k] = {}]
        /\ callers' = MarkStale(k)
        /\ last' = [NoOp EXCEPT !.op = "deleteQueue", !.key = k,
                                !.existed = MapHas(queues, k),
                                !.caught = raises, !.threw = FALSE]

\* A task that holds a Queue calls queue.destroy() on it directly.
QueueDestroyCall(c) ==
    LET q == callers[c].ret
    IN  /\ callers[c].pc = "returned"
        /\ qobj' = IF QueueDestroyThrows(qobj, q) THEN qobj ELSE QueueDestroy(qobj, q)
        /\ last' = [NoOp EXCEPT !.op = "destroy", !.key = qobj[q].key,
                                !.existed = MapHas(queues, qobj[q].key),
                                !.threw = QueueDestroyThrows(qobj, q)]
        /\ UNCHANGED <<queues, made, callers>>

\* A task drops what it holds and becomes free to call again.
CallerDone(c) ==
    /\ callers[c].pc = "returned"
    /\ callers' = [callers EXCEPT ![c] = IdleCaller]
    /\ UNCHANGED <<queues, qobj, made, last>>

----------------------------------------------------------------------------
(* Extractor registry and Player.search *)

MaxExtractors == 2      \* registered extractors at a time
MaxRegistryChanges == 2 \* use / unuse calls that run while one search is suspended
BuiltinItems == 2       \* items a built-in list lookup or an extractor returns

Names == {"A", "B", "C"}

\* What an extractor does with the query: validate(query), and the outcome
\* of handle(query): a falsy value, an empty item list, items, items with a
\* playlist, or a rejection.  An object that lacks the methods (conforming =
\* FALSE) fails with a TypeError when validate is called on it.
HandleOutcomes == {"null", "empty", "tracks", "playlist", "throw"}

Plugins ==
    { [validate |-> FALSE, handle |-> "tracks", conforming |-> TRUE] }
    \cup { [validate |-> TRUE, handle |-> h, conforming |-> TRUE] : h \in HandleOutcomes }
    \cup { [validate |-> FALSE, handle |-> "null", conforming |-> FALSE] }

\* QueryType: the kinds with a case in the switch of search, AUTO, and kinds
\* that fall to its default branch.
SwitchKinds == {"YOUTUBE_VIDEO", "YOUTUBE_SEARCH", "SOUNDCLOUD_TRACK", "SOUNDCLOUD_SEARCH",
                "SPOTIFY_SONG", "SPOTIFY_PLAYLIST", "SPOTIFY_ALBUM",
                "SOUNDCLOUD_PLAYLIST", "YOUTUBE_PLAYLIST"}
QueryTypes == SwitchKinds \cup {"AUTO", "ARBITRARY", "FACEBOOK", "VIMEO", "REVERBNATION"}

\* typeof options.searchEngine === "string": the QueryType members are not
\* strings, an extractor name (registered or not) is.
IsString(e) == e \notin QueryTypes

\* The search options the callers pass: searchEngine (or none), blockExtractor.
Engines ==
    {"absent", "AUTO", "SOUNDCLOUD_SEARCH", "SOUNDCLOUD_PLAYLIST", "YOUTUBE_PLAYLIST", "bogus"}
    \cup Names
\* The shapes of the query strings passed: what QueryResolver.resolve gives for them.
QueryShapes == {"YOUTUBE_SEARCH", "SOUNDCLOUD_TRACK", "ARBITRARY"}

QueryResolverResolve(shape) == shape

NoPlaylist == 0
EmptyResult ==
    [playlist |-> NoPlaylist, tracks |-> <<>>, pltracks |-> <<>>, seen |-> <<>>, from |-> "none"]

\* How many Tracks the Playlist's tracks hold while the i-th of n Tracks is
\* constructed: the SoundCloud playlist case pushes each Track as soon as it
\* is constructed; the other paths assign the whole array after the map.
SeenAtConstruction(src, n) ==
    [i \in 1..n |-> IF src = "SOUNDCLOUD_PLAYLIST" THEN i - 1 ELSE 0]

BuildResult_noBackRef(src, withPlaylist, items) ==
    LET pl == IF withPlaylist THEN 1 ELSE NoPlaylist
        tracks == [i \in 1..Len(items) |-> [item |-> items[i], playlist |-> NoPlaylist]]
    IN  [playlist |-> pl, tracks |-> tracks,
         pltracks |-> IF withPlaylist THEN tracks ELSE <<>>,
         seen |-> IF withPlaylist THEN SeenAtConstruction(src, Len(items)) ELSE <<>>,
         from |-> src]

BuildResult_pushEverywhere(src, withPlaylist, items) ==
    LET pl == IF withPlaylist THEN 1 ELSE NoPlaylist
        tracks == [i \in 1..Len(items) |-> [item |-> items[i], playlist |-> pl]]
    IN  [playlist |-> pl, tracks |-> tracks,
         pltracks |-> IF withPlaylist THEN tracks ELSE <<>>,
         seen |-> IF withPlaylist THEN [i \in 1..Len(items) |-> i - 1] ELSE <<>>,
         from |-> src]

\* The result search builds from n source items: the Playlist first, with no
\* tracks, then one Track per item with its playlist reference, and the
\* Playlist's tracks.  seen[i]: the length of the Playlist's tracks while the
\* i-th Track is constructed.
BuildResult(src, withPlaylist, items) ==
    LET pl == IF withPlaylist THEN 1 ELSE NoPlaylist
        tracks == [i \in 1..Len(items) |-> [item |-> items[i], playlist |-> pl]]
    IN  [playlist |-> pl, tracks |-> tracks,
         pltracks |-> IF withPlaylist THEN tracks ELSE <<>>,
         seen |-> IF withPlaylist THEN SeenAtConstruction(src, Len(items)) ELSE <<>>,
         from |-> src]

AllItems == [i \in 1..BuiltinItems |-> i]

\* data && data.data.length
NonEmpty(h) == h \in {"tracks", "playlist"}

IdleSearch ==
    [pc |-> "idle", engine |-> "AUTO", block |-> FALSE, shape |-> "ARBITRARY",
     idx |-> 0, cur |-> "none", curHandle |-> "null",
     vlog |-> <<>>, hlog |-> <<>>, blog |-> <<>>,
     pending |-> <<>>, got |-> <<>>,
     changes |-> 0, hasOptions |-> TRUE, qpl |-> NoPlaylist, reg0 |-> <<>>,
     result |-> EmptyResult, threw |-> "none"]

\* The entries of registry reg after position i, up to and including the
\* first one whose validate does not return false: those the for-of loop
\* calls validate on before it awaits or throws.
RECURSIVE ScanFrom(_, _)
ScanFrom(reg, i) ==
    IF i >= Len(reg) THEN <<>>
    ELSE LET e == reg[i + 1]
         IN  IF e.val.conforming /\ ~e.val.validate
             THEN <<e.key>> \o ScanFrom(reg, i + 1)
             ELSE <<e.key>>

SpotifyKinds == {"SPOTIFY_SONG", "SPOTIFY_PLAYLIST", "SPOTIFY_ALBUM"}
SoundCloudItemKinds == {"SOUNDCLOUD_TRACK", "SOUNDCLOUD_SEARCH"}

\* Where search is suspended inside the switch: at the first await of a case
\* ("builtin"), at its second one ("builtin2"), or at the await of a
\* soundcloud.getSongInfo inside the for-of loop ("info").
BuiltinPcs == {"builtin", "builtin2", "info"}

\* The lookup a case starts with.  The Spotify cases first await
\* Util.getFetch(), which is no lookup of the query.
FirstLookup(qt) ==
    CASE qt = "YOUTUBE_VIDEO" -> <<"getInfo">>
      [] qt \in {"YOUTUBE_SEARCH"} \cup SoundCloudItemKinds -> <<"search">>
      [] qt \in SpotifyKinds -> <<>>
      [] OTHER -> <<"getPlaylist">>

\* The built-in part of search, after the extractor loop: the switch on qt,
\* up to the first await of the case.  A kind with a case starts its first
\* network call; any other kind returns the empty result.  In the SoundCloud
\* case a query that resolves to a track link is the one result, and the
\* loop over the results starts at once.
EnterBuiltin(s) ==
    LET qt == IF s.engine = "AUTO" THEN QueryResolverResolve(s.shape) ELSE s.engine
    IN  IF qt \notin SwitchKinds
        THEN [s EXCEPT !.pc = "done", !.cur = "default", !.result = EmptyResult]
        ELSE IF qt \in SoundCloudItemKinds /\ QueryResolverResolve(s.shape) = "SOUNDCLOUD_TRACK"
        THEN [s EXCEPT !.pc = "info", !.cur = qt, !.pending = <<1>>, !.got = <<>>,
                       !.blog = <<"getSongInfo">>]
        ELSE [s EXCEPT !.pc = "builtin", !.cur = qt, !.blog = FirstLookup(qt)]

ChainLoop_blockAfterFirst(s, reg, i) ==
    LET scanned == ScanFrom(reg, i)
        j == i + Len(scanned)
    IN  IF (s.block /\ s.hlog # <<>>) \/ scanned = <<>>
        THEN EnterBuiltin(s)
        ELSE LET e == reg[j].val
                 s1 == [s EXCEPT !.vlog = @ \o scanned, !.idx = j]
             IN  IF ~e.conforming
                 THEN [s1 EXCEPT !.pc = "done", !.threw = "TypeError"]
                 ELSE IF ~e.validate
                 THEN EnterBuiltin(s1)
                 ELSE [s1 EXCEPT !.pc = "chain", !.cur = reg[j].key,
                                 !.curHandle = e.handle, !.hlog = Append(@, reg[j].key)]

\* The for-of loop over this.extractors, resumed after the entry at position
\* i (0: from the start): up to its next await, its break or its end.
ChainLoop(s, reg, i) ==
    LET scanned == ScanFrom(reg, i)
        j == i + Len(scanned)
    IN  IF s.block \/ scanned = <<>>
        THEN EnterBuiltin(s)
        ELSE LET e == reg[j].val
                 s1 == [s EXCEPT !.vlog = @ \o scanned, !.idx = j]
             IN  IF ~e.conforming
                 THEN [s1 EXCEPT !.pc = "done", !.threw = "TypeError"]
                 ELSE IF ~e.validate
                 THEN EnterBuiltin(s1)
                 ELSE [s1 EXCEPT !.pc = "chain", !.cur = reg[j].key,
                                 !.curHandle = e.handle, !.hlog = Append(@, reg[j].key)]

NamedBlock_fallThrough(s, reg) ==
    LET e == MapGet(reg, s.engine)
        s1 == [s EXCEPT !.vlog = Append(@, s.engine)]
    IN  IF ~e.conforming
        THEN [s1 EXCEPT !.pc = "done", !.threw = "TypeError"]
        ELSE IF ~e.validate
        THEN ChainLoop(s1, reg, 0)
        ELSE [s1 EXCEPT !.pc = "named", !.cur = s.engine, !.curHandle = e.handle,
                        !.hlog = Append(@, s.engine)]

\* The named-extractor block of search, up to its await or its return.
NamedBlock(s, reg) ==
    LET e == MapGet(reg, s.engine)
        s1 == [s EXCEPT !.vlog = Append(@, s.engine)]
    IN  IF ~e.conforming
        THEN [s1 EXCEPT !.pc = "done", !.threw = "TypeError"]
        ELSE IF ~e.validate
        THEN [s1 EXCEPT !.pc = "done", !.result = EmptyResult]
        ELSE [s1 EXCEPT !.pc = "named", !.cur = s.engine, !.curHandle = e.handle,
                        !.hlog = Append(@, s.engine)]

\* The Playlist instance a Track passed as the query may belong to.
QueryPlaylist == 2

\* The result for a query that is a Track: that Track (item 0), with its own
\* playlist or null.
TrackResult(qpl) ==
    [playlist |-> qpl, tracks |-> <<[item |-> 0, playlist |-> qpl]>>,
     pltracks |-> <<>>, seen |-> <<>>, from |-> "query"]

SearchStart_optionsFirst(qkind, hasOptions, engine, block, shape, qpl) ==
    LET s0 == [IdleSearch EXCEPT
                  !.engine = IF engine = "absent" THEN "AUTO" ELSE engine,
                  !.block = block, !.shape = shape, !.reg0 = MapKeySeq(extractors)]
    IN  /\ srch.pc = "idle"
        /\ srch' =
             IF ~hasOptions
             THEN [IdleSearch EXCEPT !.pc = "done", !.threw = "INVALID_ARG_TYPE",
                      !.hasOptions = FALSE, !.qpl = qpl,
                      !.cur = IF qkind = "track" THEN "track" ELSE "none"]
             ELSE IF qkind = "track"
             THEN [IdleSearch EXCEPT !.pc = "done", !.cur = "track",
                      !.hasOptions = hasOptions, !.qpl = qpl,
                      !.result = TrackResult(qpl)]
             ELSE IF IsString(s0.engine) /\ MapHas(extractors, s0.engine)
             THEN NamedBlock(s0, extractors)
             ELSE ChainLoop(s0, extractors, 0)
        /\ UNCHANGED extractors

\* Player.search(query, options), to its first await or its return.
\* qkind: the query is a Track or a string; qpl: the playlist of that Track;
\* hasOptions: options were passed.
SearchStart(qkind, hasOptions, engine, block, shape, qpl) ==
    LET s0 == [IdleSearch EXCEPT
                  !.engine = IF engine = "absent" THEN "AUTO" ELSE engine,
                  !.block = block, !.shape = shape, !.reg0 = MapKeySeq(extractors)]
    IN  /\ srch.pc = "idle"
        /\ srch' =
             IF qkind = "track"
             THEN [IdleSearch EXCEPT !.pc = "done", !.cur = "track",
                      !.hasOptions = hasOptions, !.qpl = qpl,
                      !.result = TrackResult(qpl)]
             ELSE IF ~hasOptions
             THEN [IdleSearch EXCEPT !.pc = "done", !.threw = "INVALID_ARG_TYPE",
                                     !.hasOptions = FALSE]
             ELSE IF IsString(s0.engine) /\ MapHas(extractors, s0.engine)
             THEN NamedBlock(s0, extractors)
             ELSE ChainLoop(s0, extractors, 0)
        /\ UNCHANGED extractors

\* The await of the named extractor's handle settles.
SearchResumeNamed ==
    /\ srch.pc = "named"
    /\ srch' =
         IF srch.curHandle = "throw"
         THEN [srch EXCEPT !.pc = "done", !.threw = "rejected"]
         ELSE IF NonEmpty(srch.curHandle)
         THEN [srch EXCEPT !.pc = "done",
                  !.result = BuildResult(srch.cur, srch.curHandle = "playlist", AllItems)]
         ELSE ChainLoop(srch, extractors, 0)
    /\ UNCHANGED extractors

SearchResumeChain_stopOnEmpty ==
    /\ srch.pc = "chain"
    /\ srch' =
         IF srch.curHandle = "throw"
         THEN [srch EXCEPT !.pc = "done", !.threw = "rejected"]
         ELSE IF NonEmpty(srch.curHandle)
         THEN [srch EXCEPT !.pc = "done",
                  !.result = BuildResult(srch.cur, srch.curHandle = "playlist", AllItems)]
         ELSE EnterBuiltin(srch)
    /\ UNCHANGED extractors

\* The await of extractor.handle inside the loop settles.
SearchResumeChain ==
    /\ srch.pc = "chain"
    /\ srch' =
         IF srch.curHandle = "throw"
         THEN [srch EXCEPT !.pc = "done", !.threw = "rejected"]
         ELSE IF NonEmpty(srch.curHandle)
         THEN [srch EXCEPT !.pc = "done",
                  !.result = BuildResult(srch.cur, srch.curHandle = "playlist", AllItems)]
         ELSE ChainLoop(srch, extractors, srch.idx)
    /\ UNCHANGED extractors

\* The first await of the case settles; net: the call gave a value (FALSE:
\* it failed and the .catch gave nothing, or an empty list).  The cases with
\* one await build their result and return; the SoundCloud search goes into
\* the loop over its results, the Spotify cases call getData with the fetch
\* function they now have, the YouTube playlist case calls ytpl.fetch().
\* Util.getFetch() is taken to give its value.
SearchResumeBuiltin(net) ==
    LET qt == srch.cur
    IN  /\ srch.pc = "builtin"
        /\ srch' =
             IF qt \in SpotifyKinds
             THEN [srch EXCEPT !.pc = "builtin2",
                      !.blog = Append(@, IF qt = "SPOTIFY_SONG" THEN "getInfo" ELSE "getPlaylist")]
             ELSE IF ~net
             THEN [srch EXCEPT !.pc = "done", !.result = EmptyResult]
             ELSE IF qt = "YOUTUBE_VIDEO"
             THEN [srch EXCEPT !.pc = "done", !.result = BuildResult(qt, FALSE, <<1>>)]
             ELSE IF qt = "YOUTUBE_SEARCH"
             THEN [srch EXCEPT !.pc = "done", !.result = BuildResult(qt, FALSE, AllItems)]
             ELSE IF qt \in SoundCloudItemKinds
             THEN [srch EXCEPT !.pc = "info", !.pending = AllItems, !.got = <<>>,
                      !.blog = Append(@, "getSongInfo")]
             ELSE IF qt = "YOUTUBE_PLAYLIST"
             THEN [srch EXCEPT !.pc = "builtin2", !.blog = Append(@, "fetch")]
             ELSE [srch EXCEPT !.pc = "done", !.result = BuildResult(qt, TRUE, AllItems)]
        /\ UNCHANGED extractors

\* The second await of a Spotify case (getData) or of the YouTube playlist
\* case (ytpl.fetch) settles.  A failed getData gives the empty result; what
\* ytpl.fetch gives is not looked at.
SearchResumeSecond(net) ==
    LET qt == srch.cur
    IN  /\ srch.pc = "builtin2"
        /\ srch' =
             IF qt = "YOUTUBE_PLAYLIST"
             THEN [srch EXCEPT !.pc = "done", !.result = BuildResult(qt, TRUE, AllItems)]
             ELSE IF ~net
             THEN [srch EXCEPT !.pc = "done", !.result = EmptyResult]
             ELSE IF qt = "SPOTIFY_SONG"
             THEN [srch EXCEPT !.pc = "done", !.result = BuildResult(qt, FALSE, <<1>>)]
             ELSE [srch EXCEPT !.pc = "done", !.result = BuildResult(qt, TRUE, AllItems)]
        /\ UNCHANGED extractors

\* The await of soundcloud.getSongInfo for the next result settles; ok: it
\* gave the track info (FALSE: the loop continues without it).  After the
\* last result the Tracks built are returned.
SearchResumeInfo(ok) ==
    LET got == IF ok THEN Append(srch.got, Head(srch.pending)) ELSE srch.got
        rest == Tail(srch.pending)
    IN  /\ srch.pc = "info"
        /\ srch' =
             IF rest = <<>>
             THEN [srch EXCEPT !.pc = "done", !.pending = <<>>, !.got = <<>>,
                      !.result = BuildResult(srch.cur, FALSE, got)]
             ELSE [srch EXCEPT !.pending = rest, !.got = got,
                      !.blog = Append(@, "getSongInfo")]
        /\ UNCHANGED extractors

\* The caller has taken the result; another search may be made.
SearchDone ==
    /\ srch.pc = "done"
    /\ srch' = IdleSearch
    /\ UNCHANGED extractors

InFlight == srch.pc \in {"named", "chain"} \cup BuiltinPcs

\* The position of the suspended for-of loop after the entry at position p is
\* deleted: the loop neither skips nor revisits the remaining entries.
IterAfterDelete(s, p) ==
    IF s.pc = "chain" /\ p <= s.idx THEN [s EXCEPT !.idx = @ - 1] ELSE s

NoteChange(s) == IF InFlight THEN [s EXCEPT !.changes = @ + 1] ELSE s

\* No extractor: what a call that throws hands back, in the shape of an entry.
NoEntry == [validate |-> FALSE, handle |-> "none", conforming |-> FALSE]

\* What Player.use(extractorName, extractor, force) does on the registry reg:
\* the registry afterwards, whether extractors.set ran, the error thrown and
\* the value returned.  isModel: extractor is an ExtractorModel instance;
\* plugin.conforming: it has the methods "validate" and "getInfo".
UseOutcome_alwaysSet(reg, name, plugin, isModel, force) ==
    IF name = ""
    THEN [reg |-> reg, set |-> FALSE, threw |-> "UNKNOWN_EXTRACTOR", ret |-> NoEntry]
    ELSE IF isModel
    THEN [reg |-> MapSet(reg, name, plugin), set |-> TRUE, threw |-> "none", ret |-> plugin]
    ELSE IF ~plugin.conforming
    THEN [reg |-> reg, set |-> FALSE, threw |-> "INVALID_EXTRACTOR", ret |-> NoEntry]
    ELSE [reg |-> MapSet(reg, name, plugin), set |-> TRUE, threw |-> "none", ret |-> plugin]

UseOutcome_noContractCheck(reg, name, plugin, isModel, force) ==
    IF name = ""
    THEN [reg |-> reg, set |-> FALSE, threw |-> "UNKNOWN_EXTRACTOR", ret |-> NoEntry]
    ELSE IF MapHas(reg, name) /\ ~force
    THEN [reg |-> reg, set |-> FALSE, threw |-> "none", ret |-> MapGet(reg, name)]
    ELSE [reg |-> MapSet(reg, name, plugin), set |-> TRUE, threw |-> "none", ret |-> plugin]

UseOutcome(reg, name, plugin, isModel, force) ==
    IF name = ""
    THEN [reg |-> reg, set |-> FALSE, threw |-> "UNKNOWN_EXTRACTOR", ret |-> NoEntry]
    ELSE IF MapHas(reg, name) /\ ~force
    THEN [reg |-> reg, set |-> FALSE, threw |-> "none", ret |-> MapGet(reg, name)]
    ELSE IF isModel
    THEN [reg |-> MapSet(reg, name, plugin), set |-> TRUE, threw |-> "none", ret |-> plugin]
    ELSE IF ~plugin.conforming
    THEN [reg |-> reg, set |-> FALSE, threw |-> "INVALID_EXTRACTOR", ret |-> NoEntry]
    ELSE [reg |-> MapSet(reg, name, plugin), set |-> TRUE, threw |-> "none", ret |-> plugin]

\* Player.use(extractorName, extractor, force)
use(name, plugin, isModel, force) ==
    LET o == UseOutcome(extractors, name, plugin, isModel, force)
    IN  /\ MapHas(extractors, name) \/ Len(extractors) < MaxExtractors
        /\ extractors' = o.reg
        /\ srch' = IF o.set THEN NoteChange(srch) ELSE srch

\* What Player.unuse(extractorName) does on the registry reg.
UnuseOutcome_silent(reg, name) ==
    IF ~MapHas(reg, name)
    THEN [reg |-> reg, deleted |-> FALSE, threw |-> "none", ret |-> NoEntry]
    ELSE [reg |-> MapDelete(reg, name), deleted |-> TRUE, threw |-> "none",
          ret |-> MapGet(reg, name)]

UnuseOutcome(reg, name) ==
    IF ~MapHas(reg, name)
    THEN [reg |-> reg, deleted |-> FALSE, threw |-> "UNKNOWN_EXTRACTOR", ret |-> NoEntry]
    ELSE [reg |-> MapDelete(reg, name), deleted |-> TRUE, threw |-> "none",
          ret |-> MapGet(reg, name)]

\* Player.unuse(extractorName)
unuse(name) ==
    LET o == UnuseOutcome(extractors, name)
    IN  /\ extractors' = o.reg
        /\ srch' = IF o.deleted
                   THEN NoteChange(IterAfterDelete(srch, MapIndex(extractors, name)))
                   ELSE srch

\* A task calls use and keeps what it returned or threw.
NoRegistryCall ==
    [op |-> "none", name |-> "", plugin |-> NoEntry, isModel |-> FALSE, force |-> FALSE,
     threw |-> "none", ret |-> NoEntry]

UseCall(name, plugin, isModel, force) ==
    LET o == UseOutcome(extractors, name, plugin, isModel, force)
    IN  /\ use(name, plugin, isModel, force)
        /\ rlast' = [op |-> "use", name |-> name, plugin |-> plugin, isModel |-> isModel,
                     force |-> force, threw |-> o.threw, ret |-> o.ret]

\* A task calls unuse and keeps what it returned or threw.
UnuseCall(name) ==
    LET o == UnuseOutcome(extractors, name)
    IN  /\ unuse(name)
        /\ rlast' = [op |-> "unuse", name |-> name, plugin |-> NoEntry, isModel |-> FALSE,
                     force |-> FALSE, threw |-> o.threw, ret |-> o.ret]

----------------------------------------------------------------------------
(* Events: Player extends EventEmitter and overrides emit *)

requiredEvents == {"error", "connectionError"}

EventNames == requiredEvents \cup {"trackStart"}

ListenerIds == {"l1", "l2"}

\* EventEmitter.eventNames(): the events that have at least one listener.
eventNames(ls) == { e \in EventNames : ls[e] # <<>> }

NoEmit == [event |-> "none", returned |-> FALSE, warned |-> FALSE, invoked |-> <<>>]

\* EventEmitter.emit: calls the listeners of the event in order; true when
\* there was one.
SuperEmit(ls, eventName) ==
    [event |-> eventName, returned |-> ls[eventName] # <<>>, warned |-> FALSE,
     invoked |-> ls[eventName]]

\* EventEmitter.on(eventName, listener)
on(eventName, l) ==
    /\ Len(listeners[eventName]) < MaxListeners
    /\ listeners' = [listeners EXCEPT ![eventName] = Append(@, l)]
    /\ UNCHANGED elast

\* EventEmitter.off(eventName, listener): removes the instance added last.
RemoveLast(seq, l) ==
    LET i == CHOOSE j \in 1..Len(seq) :
                 seq[j] = l /\ \A k \in (j + 1)..Len(seq) : seq[k] # l
    IN  SubSeq(seq, 1, i - 1) \o SubSeq(seq, i + 1, Len(seq))

off(eventName, l) ==
    /\ \E j \in 1..Len(listeners[eventName]) : listeners[eventName][j] = l
    /\ listeners' = [listeners EXCEPT ![eventName] = RemoveLast(@, l)]
    /\ UNCHANGED elast

emit_noRequiredCheck(eventName) ==
    /\ elast' = SuperEmit(listeners, eventName)
    /\ UNCHANGED listeners

\* Player.emit(eventName, ...args)
emit(eventName) ==
    /\ elast' =
         IF eventName \in requiredEvents /\ eventName \notin eventNames(listeners)
         THEN [event |-> eventName, returned |-> FALSE, warned |-> TRUE, invoked |-> <<>>]
         ELSE SuperEmit(listeners, eventName)
    /\ UNCHANGED listeners

----------------------------------------------------------------------------
(* VoiceUtils (src/src/VoiceInterface/VoiceUtils.ts) *)

Joiners == 1..NumJoiners

\* A call of connect or of join: where it stands, the channel, the
\* connection it asked for, what it returned or threw.
IdleJoin ==
    [pc |-> "idle", via |-> "none", key |-> "g1", conn |-> 0, ret |-> Undefined, threw |-> "none"]

NoVoiceOp == [op |-> "none", key |-> "", target |-> 0, ret |-> Undefined]

\* The body of join up to its await: channel.call({selfDeaf: Boolean(options.deaf)}).
\* Without options, options.deaf throws before a connection is asked for.
JoinStart(p, key, hasOptions, via) ==
    /\ vcalls[p].pc = "idle"
    /\ Len(conns) < MaxConns
    /\ IF ~hasOptions
       THEN /\ vcalls' = [vcalls EXCEPT ![p] =
                             [IdleJoin EXCEPT !.pc = "done", !.via = via, !.key = key,
                                              !.threw = "TypeError"]]
            /\ UNCHANGED conns
       ELSE /\ conns' = Append(conns, [key |-> key, state |-> "pending", via |-> via])
            /\ vcalls' = [vcalls EXCEPT ![p] =
                             [IdleJoin EXCEPT !.pc = "join", !.via = via, !.key = key,
                                              !.conn = Len(conns) + 1]]
    /\ UNCHANGED <<cache, disps, vlast>>

\* VoiceUtils.connect(channel, options), to the await of channel.call inside
\* the join it calls.
connect(p, key, hasOptions) == JoinStart(p, key, hasOptions, "connect")

\* VoiceUtils.join(channel, options) called on its own, to its await.
join(p, key, hasOptions) == JoinStart(p, key, hasOptions, "join")

\* channel.call settles and join returns the connection (or rejects).  A
\* join called on its own is done; inside connect, the continuation of
\* "await this.join" is a later microtask.
joinResume(p, ok) ==
    LET c == vcalls[p].conn
    IN  /\ vcalls[p].pc = "join"
        /\ conns' = [conns EXCEPT ![c].state = IF ok THEN "live" ELSE "failed"]
        /\ vcalls' =
             IF ~ok THEN [vcalls EXCEPT ![p].pc = "done", ![p].threw = "rejected"]
             ELSE IF vcalls[p].via = "join"
             THEN [vcalls EXCEPT ![p].pc = "done", ![p].ret = c]
             ELSE [vcalls EXCEPT ![p].pc = "joined"]
        /\ UNCHANGED <<cache, disps, vlast>>

\* connect goes on after "await this.join": new StreamDispatcher(conn),
\* cache.set(channel.id, sub), return sub.
connectResume(p) ==
    /\ vcalls[p].pc = "joined"
    /\ disps' = Append(disps, [conn |-> vcalls[p].conn])
    /\ cache' = MapSet(cache, vcalls[p].key, Len(disps) + 1)
    /\ vcalls' = [vcalls EXCEPT ![p].pc = "done", ![p].ret = Len(disps) + 1]
    /\ UNCHANGED <<conns, vlast>>

\* The caller of connect or join has what it returned (or the error).
connectReturn(p) ==
    /\ vcalls[p].pc = "done"
    /\ vcalls' = [vcalls EXCEPT ![p] = IdleJoin]
    /\ UNCHANGED <<cache, conns, disps, vlast>>

\* VoiceUtils.disconnect(connection): the argument is a StreamDispatcher
\* (asDispatcher) or a VoiceConnection, by id.
disconnect(asDispatcher, id) ==
    LET c == IF asDispatcher THEN disps[id].conn ELSE id
    IN  /\ IF asDispatcher THEN id \in 1..Len(disps) ELSE id \in 1..Len(conns)
        /\ conns[c].state = "live"
        /\ conns' = [conns EXCEPT ![c].state = "destroyed"]
        /\ UNCHANGED <<cache, disps, vcalls, vlast>>

\* VoiceUtils.getConnection(guild)
getConnection(key) ==
    /\ vlast' = [op |-> "getConnection", key |-> key, target |-> 0,
                 ret |-> IF MapHas(cache, key) THEN MapGet(cache, key) ELSE Undefined]
    /\ UNCHANGED <<cache, conns, disps, vcalls>>

----------------------------------------------------------------------------
(* Player[Symbol.iterator]: a generator over Array.from(queues.values()) *)

\* Array.from(m.values()): the values in insertion order.
MapValues(m) == [i \in 1..Len(m) |-> m[i].val]

NoIter == [pc |-> "none", snap |-> <<>>, pos |-> 0, yielded |-> Undefined, live |-> TRUE]

\* player[Symbol.iterator](): the generator object; its body has not run yet.
IterOpen ==
    /\ iter.pc = "none"
    /\ iter' = [NoIter EXCEPT !.pc = "fresh"]

\* next() on the generator.  The first call evaluates
\* Array.from(this.queues.values()); every call hands out the next element
\* of that array, or finishes.  live: the Queue handed out is the one the
\* table holds under its key at this moment.
IterNext ==
    LET snap == IF iter.pc = "fresh" THEN MapValues(queues) ELSE iter.snap
        pos == IF iter.pc = "fresh" THEN 0 ELSE iter.pos
    IN  /\ iter.pc \in {"fresh", "running"}
        /\ iter' = IF pos < Len(snap)
                   THEN [pc |-> "running", snap |-> snap, pos |-> pos + 1,
                         yielded |-> snap[pos + 1],
                         live |-> getQueue(queues, qobj[snap[pos + 1]].key) = snap[pos + 1]]
                   ELSE NoIter

----------------------------------------------------------------------------
(* Voice state updates: client.on("voiceStateUpdate", _handleVoiceState) *)

NoFeed == [empty |-> [k \in Keys |-> FALSE], elapsed |-> [k \in Keys |-> 0]]

\* Player._handleVoiceState(oldState, newState): looks the queue up and
\* returns; nothing after the bare return runs, no timer is armed, no queue
\* is destroyed or deleted.
handleVoiceState(k) ==
    LET queue == getQueue(queues, k)
    IN  UNCHANGED <<queues, qobj, callers, made, last>>

\* The client reports that the channel k became empty (nowEmpty) or got a
\* member again, and hands the update to the handler.
VoiceStateUpdate(k, nowEmpty) ==
    /\ feed.empty[k] # nowEmpty
    /\ feed' = [empty |-> [feed.empty EXCEPT ![k] = nowEmpty],
                elapsed |-> [feed.elapsed EXCEPT ![k] = 0]]
    /\ handleVoiceState(k)

\* Time passes while the channel k is empty, up to the idle deadline.
Tick(k) ==
    /\ feed.empty[k]
    /\ feed.elapsed[k] < IdleDeadline
    /\ feed' = [feed EXCEPT !.elapsed[k] = @ + 1]
    /\ UNCHANGED qvars

----------------------------------------------------------------------------
(* Text: a string is the sequence of its characters *)

Digits == <<"0", "1", "2", "3", "4", "5", "6", "7", "8", "9">>

\* The digits of radix 16, in lower and in upper case.
HexLower == Digits \o <<"a", "b", "c", "d", "e", "f">>
HexUpper == Digits \o <<"A", "B", "C", "D", "E", "F">>

\* c is a digit of the radix (10 or 16).
IsDigit(c, radix) == \E d \in 1..radix : HexLower[d] = c \/ HexUpper[d] = c

DigitVal(c) == (CHOOSE d \in 1..16 : HexLower[d] = c \/ HexUpper[d] = c) - 1

\* The white space characters a text may hold that cannot be written between
\* quotes here; a text holds each of them as the one element named.
\* LS, PS: the line and the paragraph separator U+2028, U+2029.
LS == "<LS>"
PS == "<PS>"
\* The space separators U+2000 to U+200A, U+202F, U+205F and U+3000.
SpaceSeparators ==
    {"<U+2000>", "<U+2001>", "<U+2002>", "<U+2003>", "<U+2004>", "<U+2005>", "<U+2006>",
     "<U+2007>", "<U+2008>", "<U+2009>", "<U+200A>", "<U+202F>", "<U+205F>", "<U+3000>"}

\* The white space parseInt skips at the start of the text (StrWhiteSpaceChar):
\* tab, vertical tab, form feed, space, no-break space U+00A0, U+FEFF, the
\* space separators (U+1680 among them), line feed, carriage return, LS, PS.
WhiteSpace ==
    {"\t", "", "\f", " ", " ", "﻿", " ", "\n", "\r", LS, PS} \cup SpaceSeparators

RECURSIVE SkipWhiteSpace(_)
SkipWhiteSpace(t) ==
    IF t # <<>> /\ Head(t) \in WhiteSpace THEN SkipWhiteSpace(Tail(t)) ELSE t

\* Number.prototype.toString for a non-negative integer.
RECURSIVE NumToString(_)
NumToString(n) ==
    IF n < 10 THEN <<Digits[n + 1]>> ELSE NumToString(n \div 10) \o <<Digits[(n % 10) + 1]>>

\* String.prototype.padStart(2, "0")
PadStart2(t) == IF Len(t) < 2 THEN [i \in 1..(2 - Len(t)) |-> "0"] \o t ELSE t

\* String.prototype.split(sep) for a separator of one character: the pieces
\* between the separators; a text without the separator is one piece, the
\* empty text included.
RECURSIVE SplitChar(_, _)
SplitChar(t, sep) ==
    IF \A i \in 1..Len(t) : t[i] # sep
    THEN <<t>>
    ELSE LET p == CHOOSE i \in 1..Len(t) : t[i] = sep /\ \A j \in 1..(i - 1) : t[j] # sep
         IN  <<SubSeq(t, 1, p - 1)>> \o SplitChar(SubSeq(t, p + 1, Len(t)), sep)

\* Array.prototype.join(sep)
RECURSIVE Join(_, _)
Join(parts, sep) ==
    IF Len(parts) = 0 THEN <<>>
    ELSE IF Len(parts) = 1 THEN parts[1]
    ELSE parts[1] \o sep \o Join(Tail(parts), sep)

\* Array.prototype.reverse
Reverse(s) == [i \in 1..Len(s) |-> s[Len(s) + 1 - i]]

----------------------------------------------------------------------------
(* Numbers: a number is the integer n, written Num(n), or NaN, which is no *)
(* integer; arithmetic on NaN gives NaN                                     *)

Num(n) == [nan |-> FALSE, v |-> n]

NaN == [nan |-> TRUE, v |-> 0]

\* a * b
JsMul(a, b) == IF a.nan \/ b.nan THEN NaN ELSE Num(a.v * b.v)

\* a + b
JsAdd(a, b) == IF a.nan \/ b.nan THEN NaN ELSE Num(a.v + b.v)

\* The value of the leading run of digits of the radix.
RECURSIVE DigitsValue(_, _, _)
DigitsValue(t, radix, acc) ==
    IF t = <<>> \/ ~IsDigit(Head(t), radix) THEN acc
    ELSE DigitsValue(Tail(t), radix, acc * radix + DigitVal(Head(t)))

\* parseInt(text) with no radix given: leading white space is skipped, a
\* sign is taken, a 0x or 0X prefix makes the digits hexadecimal, and the
\* value is that of the leading run of digits; NaN when there is no digit at
\* that place (the empty text included).
ParseInt(t) ==
    LET s == SkipWhiteSpace(t)
        signed == s # <<>> /\ Head(s) \in {"+", "-"}
        u == IF signed THEN Tail(s) ELSE s
        hex == Len(u) >= 2 /\ u[1] = "0" /\ u[2] \in {"x", "X"}
        body == IF hex THEN SubSeq(u, 3, Len(u)) ELSE u
        radix == IF hex THEN 16 ELSE 10
    IN  IF body = <<>> \/ ~IsDigit(Head(body), radix) THEN NaN
        ELSE IF signed /\ Head(s) = "-" THEN Num(0 - DigitsValue(body, radix, 0))
        ELSE Num(DigitsValue(body, radix, 0))

----------------------------------------------------------------------------
(* Track.durationMS (src/src/Structures/Track.ts) and the duration text *)

\* const times = (n, t) => ...: n to the power t, in milliseconds; 1000 for t <= 0.
RECURSIVE Power(_, _)
Power(n, t) == IF t <= 0 THEN 1 ELSE n * Power(n, t - 1)

times(n, t) == IF t <= 0 THEN 1000 ELSE Power(n, t) * 1000

\* reduce((a, c) => a + c, 0)
RECURSIVE Sum(_)
Sum(s) == IF s = <<>> THEN Num(0) ELSE JsAdd(Sum(SubSeq(s, 1, Len(s) - 1)), s[Len(s)])

durationMS_noReverse(duration) ==
    LET parts == SplitChar(duration, ":")
    IN  Sum([i \in 1..Len(parts) |-> JsMul(ParseInt(parts[i]), Num(times(60, i - 1)))])

\* get durationMS(): split(":"), reverse, parseInt(m) * times(60, i), summed.
durationMS(duration) ==
    LET parts == Reverse(SplitChar(duration, ":"))
    IN  Sum([i \in 1..Len(parts) |-> JsMul(ParseInt(parts[i]), Num(times(60, i - 1)))])

\* Util.parseMS(ms): the hours, minutes and seconds of a duration; what is
\* left of a second is dropped.
parseMS(ms) ==
    [hours   |-> ms \div 3600000,
     minutes |-> (ms \div 60000) % 60,
     seconds |-> (ms \div 1000) % 60]

\* Util.buildTimeCode(data): the H:MM:SS-style text, M:SS below an hour.
buildTimeCode(d) ==
    IF d.hours > 0
    THEN Join(<<NumToString(d.hours), PadStart2(NumToString(d.minutes)),
                PadStart2(NumToString(d.seconds))>>, <<":">>)
    ELSE Join(<<NumToString(d.minutes), PadStart2(NumToString(d.seconds))>>, <<":">>)

\* The duration text written from component numbers, padded to two digits
\* or not.
TextOf(comps, pad) ==
    Join([i \in 1..Len(comps) |->
             IF pad THEN PadStart2(NumToString(comps[i])) ELSE NumToString(comps[i])], <<":">>)

----------------------------------------------------------------------------
(* escapeMarkdown (src/src/Structures/Track.ts)                            *)
(* String.prototype.replace with a global regular expression goes through  *)
(* the text from the left; a match is replaced and the scan goes on after  *)
(* it; look-behind and look-ahead read the text as it was given.           *)

\* One-character tokens of the text alphabet: BS is the backslash, BT stands
\* for the grave accent (the code-span and code-fence marker of the source).
BS == "\\"
BT == "^"

At(t, i) == IF i >= 1 /\ i <= Len(t) THEN t[i] ELSE ""

\* The replace of escapeCodeBlock, escapeStrikethrough: every run of n
\* characters c, from the left, gets a backslash before each character.
RECURSIVE ReplaceRun(_, _, _, _)
ReplaceRun(t, i, c, n) ==
    IF i > Len(t) THEN <<>>
    ELSE IF \A k \in 0..(n - 1) : At(t, i + k) = c
    THEN [k \in 1..(2 * n) |-> IF k % 2 = 1 THEN BS ELSE c] \o ReplaceRun(t, i + n, c, n)
    ELSE <<t[i]>> \o ReplaceRun(t, i + 1, c, n)

escapeCodeBlock(text) == ReplaceRun(text, 1, BT, 3)

\* The replace of escapeInlineCode: one or two backticks with no backtick
\* before or after them (look-behind and look-ahead of the pattern).
RECURSIVE InlineCodeScan(_, _)
InlineCodeScan(t, i) ==
    IF i > Len(t) THEN <<>>
    ELSE IF t[i] = BT /\ At(t, i - 1) # BT
    THEN IF At(t, i + 1) = BT /\ At(t, i + 2) # BT
         THEN <<BS, BT, BS, BT>> \o InlineCodeScan(t, i + 2)
         ELSE IF At(t, i + 1) # BT
         THEN <<BS, BT>> \o InlineCodeScan(t, i + 1)
         ELSE <<t[i]>> \o InlineCodeScan(t, i + 1)
    ELSE <<t[i]>> \o InlineCodeScan(t, i + 1)

escapeInlineCode(text) == InlineCodeScan(text, 1)

\* The replace of escapeItalic for the marker c: a marker with no marker
\* before it, followed by one other character, by two markers, or by the
\* end of the text, in this order of preference; n is the counter i of the
\* replacer.
RECURSIVE ItalicScan(_, _, _, _)
ItalicScan(t, i, c, n) ==
    IF i > Len(t) THEN <<>>
    ELSE IF t[i] = c /\ At(t, i - 1) # c
    THEN IF i + 1 <= Len(t) /\ t[i + 1] # c
         THEN <<BS, c, t[i + 1]>> \o ItalicScan(t, i + 2, c, n)
         ELSE IF At(t, i + 1) = c /\ At(t, i + 2) = c
         THEN (IF (n + 1) % 2 = 1 THEN <<BS, c, c, c>> ELSE <<c, c, BS, c>>)
              \o ItalicScan(t, i + 3, c, n + 1)
         ELSE IF i = Len(t)
         THEN <<BS, c>>
         ELSE <<t[i]>> \o ItalicScan(t, i + 1, c, n)
    ELSE <<t[i]>> \o ItalicScan(t, i + 1, c, n)

escapeItalic(text) == ItalicScan(ItalicScan(text, 1, "*", 0), 1, "_", 0)

\* The replace of escapeBold / escapeUnderline for the marker c: two
\* markers, with a third one when there is one.
RECURSIVE BoldScan(_, _, _, _)
BoldScan(t, i, c, n) ==
    IF i > Len(t) THEN <<>>
    ELSE IF t[i] = c /\ At(t, i + 1) = c
    THEN IF At(t, i + 2) = c
         THEN (IF (n + 1) % 2 = 1 THEN <<c, BS, c, BS, c>> ELSE <<BS, c, BS, c, c>>)
              \o BoldScan(t, i + 3, c, n + 1)
         ELSE <<BS, c, BS, c>> \o BoldScan(t, i + 2, c, n)
    ELSE <<t[i]>> \o BoldScan(t, i + 1, c, n)

escapeBold(text) == BoldScan(text, 1, "*", 0)

escapeUnderline(text) == BoldScan(text, 1, "_", 0)

escapeStrikethrough(text) == ReplaceRun(text, 1, "~", 2)

\* The replace of escapeSpoiler: the pattern is built by new RegExp from the
\* two characters ||, which is the alternation of three empty patterns; it
\* matches the empty text at every position, before each character and at
\* the end, and the escaped pipes are put in at each of them.
RECURSIVE SpoilerScan(_, _)
SpoilerScan(t, i) ==
    <<BS, "|", BS, "|">> \o (IF i > Len(t) THEN <<>> ELSE <<t[i]>> \o SpoilerScan(t, i + 1))

escapeSpoiler(text) == SpoilerScan(text, 1)

\* text.split on three backticks: the pieces between the fences, from the left.
RECURSIVE SplitFence(_, _, _)
SplitFence(t, i, piece) ==
    IF i > Len(t) THEN <<piece>>
    ELSE IF At(t, i) = BT /\ At(t, i + 1) = BT /\ At(t, i + 2) = BT
    THEN <<piece>> \o SplitFence(t, i + 3, <<>>)
    ELSE SplitFence(t, i + 1, Append(piece, t[i]))

\* text.split on the backticks that stand alone (no backtick before or
\* after): the pieces between them.
RECURSIVE SplitTick(_, _, _)
SplitTick(t, i, piece) ==
    IF i > Len(t) THEN <<piece>>
    ELSE IF t[i] = BT /\ At(t, i - 1) # BT /\ At(t, i + 1) # BT
    THEN <<piece>> \o SplitTick(t, i + 1, <<>>)
    ELSE SplitTick(t, i + 1, Append(piece, t[i]))

\* The options of escapeMarkdown; every one defaults to true.
DefaultEscape ==
    [codeBlock |-> TRUE, inlineCode |-> TRUE, bold |-> TRUE, italic |-> TRUE,
     underline |-> TRUE, strikethrough |-> TRUE, spoiler |-> TRUE,
     codeBlockContent |-> TRUE, inlineCodeContent |-> TRUE]

\* Lines 72-79: the escapes that are switched on, one after the other.
EscapeEnabled(text, o) ==
    LET t1 == IF o.inlineCode THEN escapeInlineCode(text) ELSE text
        t2 == IF o.codeBlock THEN escapeCodeBlock(t1) ELSE t1
        t3 == IF o.italic THEN escapeItalic(t2) ELSE t2
        t4 == IF o.bold THEN escapeBold(t3) ELSE t3
        t5 == IF o.underline THEN escapeUnderline(t4) ELSE t4
        t6 == IF o.strikethrough THEN escapeStrikethrough(t5) ELSE t5
    IN  IF o.spoiler THEN escapeSpoiler(t6) ELSE t6

\* escapeMarkdown(text, options)
RECURSIVE escapeMarkdown(_, _)
escapeMarkdown(text, o) ==
    IF ~o.codeBlockContent
    THEN LET parts == SplitFence(text, 1, <<>>)
             inner == [o EXCEPT !.codeBlock = TRUE, !.codeBlockContent = TRUE]
         IN  Join([i \in 1..Len(parts) |->
                      IF (i - 1) % 2 = 1 /\ i # Len(parts) THEN parts[i]
                      ELSE escapeMarkdown(parts[i], inner)],
                  IF o.codeBlock THEN <<BS, BT, BS, BT, BS, BT>> ELSE <<BT, BT, BT>>)
    ELSE IF ~o.inlineCodeContent
    THEN LET parts == SplitTick(text, 1, <<>>)
             inner == [o EXCEPT !.inlineCode = TRUE, !.inlineCodeContent = TRUE]
         IN  Join([i \in 1..Len(parts) |->
                      IF (i - 1) % 2 = 1 /\ i # Len(parts) THEN parts[i]
                      ELSE escapeMarkdown(parts[i], inner)],
                  IF o.inlineCode THEN <<BS, BT>> ELSE <<BT>>)
    ELSE EscapeEnabled(text, o)

----------------------------------------------------------------------------
(* Track (src/src/Structures/Track.ts) and the calls of escapeMarkdown *)

\* The characters of the texts tried: a letter, the five marker characters
\* and the backslash.
Chars == {"a", "*", "_", BT, "~", "|", BS}

Texts(n) == UNION {[1..k -> Chars] : k \in 0..n}

\* The component numbers of the duration texts tried.
CompValues == {0, 5, 59, 61}

\* The seconds a list of components stands for, left to right.
RECURSIVE Seconds(_)
Seconds(comps) ==
    IF comps = <<>> THEN 0 ELSE Seconds(SubSeq(comps, 1, Len(comps) - 1)) * 60 + comps[Len(comps)]

\* The component lists tried: their milliseconds stay inside the integers
\* of the model.
CompLists ==
    {c \in UNION {[1..k -> CompValues] : k \in 1..MaxComponents} : Seconds(c) < (2147483647 \div 1000)}

\* Duration texts that are not plain digits and colons: signs, white space
\* of several kinds, a hexadecimal prefix, a fraction, letters.
RawTexts ==
    {<<"-", "5">>, <<" ", "5">>, <<"+", "5">>, <<"0", "x", "1", "0">>, <<"0", "x">>,
     <<"1", ":", "-", "5">>, <<"5", ".", "7">>, <<"1", ":", "\t", "0", "5">>, <<"a">>, <<"L", "I", "V", "E">>,
     <<"\r", "5">>, <<"\f", "5">>, <<"1", ":", "\r", "0", "5">>, <<" ", "\n", "5">>, <<LS, "5">>,
     <<"5", " ">>, <<" ", "-", "5">>, <<"-", " ", "5">>}

\* The millisecond durations a source reports: whole seconds and half a
\* second more, around the minute and the hour.
MsValues == {1000 * s + r : s \in {0, 1, 59, 60, 61, 3599, 3600, 3661}, r \in {0, 500}}

NoTrack ==
    [pc |-> "none", origin |-> "none", hasTitle |-> FALSE, rawTitle |-> <<>>, title |-> <<>>,
     comps |-> <<>>, ms |-> 0, duration |-> <<>>, durationMS |-> Num(0)]

\* Track._patch(data): title and duration of the new Track; a field the
\* raw data does not carry is the empty text.
patch(hasTitle, rawTitle, hasDuration, duration) ==
    [NoTrack EXCEPT !.pc = "built",
                    !.hasTitle = hasTitle,
                    !.rawTitle = IF hasTitle THEN rawTitle ELSE <<>>,
                    !.title = escapeMarkdown(IF hasTitle THEN rawTitle ELSE <<>>, DefaultEscape),
                    !.duration = IF hasDuration THEN duration ELSE <<>>]

\* new Track(player, {title, duration: Util.buildTimeCode(Util.parseMS(ms)), ...})
\* as Player.search builds it from a duration in milliseconds.
NewTrackFromMS(hasTitle, rawTitle, ms) ==
    /\ trk' = [patch(hasTitle, rawTitle, TRUE, buildTimeCode(parseMS(ms)))
                  EXCEPT !.origin = "ms", !.ms = ms]
    /\ UNCHANGED esc

\* new Track(player, {title, duration: text, ...}) with a duration text that
\* is already formatted (durationFormatted of a video, or any raw data).
NewTrackFromText(hasTitle, rawTitle, comps, pad) ==
    /\ trk' = [patch(hasTitle, rawTitle, TRUE, TextOf(comps, pad))
                  EXCEPT !.origin = "text", !.comps = comps]
    /\ UNCHANGED esc

\* new Track(player, {title, duration: text, ...}) with a duration text as
\* a source or a caller wrote it.
NewTrackFromRawText(hasTitle, rawTitle, text) ==
    /\ trk' = [patch(hasTitle, rawTitle, TRUE, text) EXCEPT !.origin = "raw"]
    /\ UNCHANGED esc

\* new Track(player, data) with raw data that carries no duration.
NewTrackNoDuration(hasTitle, rawTitle) ==
    /\ trk' = [patch(hasTitle, rawTitle, FALSE, <<>>) EXCEPT !.origin = "nodur"]
    /\ UNCHANGED esc

\* track.durationMS is read.
ReadDurationMS ==
    /\ trk.pc = "built"
    /\ trk' = [trk EXCEPT !.pc = "read", !.durationMS = durationMS(trk.duration)]
    /\ UNCHANGED esc

InitT == trk = NoTrack

\* One Track is followed from its construction on; Tracks do not share state.
NextT ==
    \/ \E h \in BOOLEAN, t \in Texts(MaxTitleLen) :
          /\ trk.pc = "none"
          /\ (~h => t = <<>>)
          /\ \/ \E ms \in MsValues : NewTrackFromMS(h, t, ms)
             \/ \E c \in CompLists, pad \in BOOLEAN : NewTrackFromText(h, t, c, pad)
             \/ \E d \in RawTexts : NewTrackFromRawText(h, t, d)
             \/ NewTrackNoDuration(h, t)
    \/ ReadDurationMS

MarkerNames ==
    {"codeBlock", "inlineCode", "bold", "italic", "underline", "strikethrough", "spoiler"}

\* The sets of enabled markers tried: all of them, all but the spoiler,
\* italic alone, none.
MarkerSets == {MarkerNames, MarkerNames \ {"spoiler"}, {"italic"}, {}}

\* The options object with the markers of enabled switched on and the two content
\* flags as given.
OptionsOf(enabled, codeBlockContent, inlineCodeContent) ==
    [codeBlock |-> "codeBlock" \in enabled, inlineCode |-> "inlineCode" \in enabled,
     bold |-> "bold" \in enabled, italic |-> "italic" \in enabled,
     underline |-> "underline" \in enabled, strikethrough |-> "strikethrough" \in enabled,
     spoiler |-> "spoiler" \in enabled,
     codeBlockContent |-> codeBlockContent, inlineCodeContent |-> inlineCodeContent]

\* The option sets of the escapeMarkdown calls tried: the marker sets above
\* with each setting of the two content flags; the default is one of them.
EscapeOptions == {OptionsOf(enabled, c, i) : enabled \in MarkerSets, c \in BOOLEAN, i \in BOOLEAN}

NoEscape == [pc |-> "none", text |-> <<>>, options |-> DefaultEscape, once |-> <<>>, twice |-> <<>>]

\* escapeMarkdown(text, options) is called with the arguments at hand.
EscapeCall ==
    /\ esc.pc = "none"
    /\ esc' = [esc EXCEPT !.pc = "once", !.once = escapeMarkdown(esc.text, esc.options)]
    /\ UNCHANGED trk

\* escapeMarkdown is called enabled its own result, with the same options.
EscapeAgain ==
    /\ esc.pc = "once"
    /\ esc' = [esc EXCEPT !.pc = "twice", !.twice = escapeMarkdown(esc.once, esc.options)]
    /\ UNCHANGED trk

InitM == esc = NoEscape

\* The arguments of the call followed: any text and option set tried.
InitArgs ==
    esc \in {[NoEscape EXCEPT !.text = t, !.options = o] :
                t \in Texts(MaxTextLen), o \in EscapeOptions}

\* One call is followed; escapeMarkdown keeps no state between calls.
NextM ==
    \/ EscapeCall
    \/ EscapeAgain

----------------------------------------------------------------------------

InitQ ==
    /\ queues = <<>>
    /\ qobj = <<>>
    /\ callers = [c \in Callers |-> IdleCaller]
    /\ made = [k \in Keys |-> {}]
    /\ last = NoOp

\* The constructor, lines 56-62: with autoRegisterExtractor on (the default)
\* and the optional extractor package installed, use is called for these
\* four names in this order; without the package, or with the option off,
\* the registry starts empty.  A package that lacks one of the four exports
\* makes the constructor throw, and there is no Player.
AutoExtractorNames == <<"Attachment", "Facebook", "Reverbnation", "Vimeo">>

\* The extractors of the package have the two methods; each validates the
\* links of its own site, which none of the queries made here is.
AutoExtractor == [validate |-> FALSE, handle |-> "tracks", conforming |-> TRUE]

RECURSIVE AutoRegister(_, _)
AutoRegister(reg, i) ==
    IF i > Len(AutoExtractorNames) THEN reg
    ELSE AutoRegister(UseOutcome(reg, AutoExtractorNames[i], AutoExtractor, FALSE, FALSE).reg, i + 1)

InitS ==
    /\ extractors \in {<<>>, AutoRegister(<<>>, 1)}
    /\ srch = IdleSearch
    /\ rlast = NoRegistryCall

InitE ==
    /\ listeners = [e \in EventNames |-> <<>>]
    /\ elast = NoEmit

InitV ==
    /\ cache = <<>>
    /\ conns = <<>>
    /\ disps = <<>>
    /\ vcalls = [p \in Joiners |-> IdleJoin]
    /\ vlast = NoVoiceOp

InitI == iter = NoIter

InitF == feed = NoFeed

Init == InitQ /\ InitS /\ InitE /\ InitV /\ InitI /\ InitF /\ InitT /\ InitM

\* The Player constructed without the optional extractor package: the start
\* of the specifications whose calls neither read nor write the registry.
InitNoPackage == Init /\ extractors = <<>>

NextQ ==
    \/ \E c \in Callers, k \in Keys : CallerInvoke(c, k)
    \/ \E c \in Callers, o \in OptionChoices : createQueue(c, o)
    \/ \E k \in Keys : GetQueueCall(k)
    \/ \E k \in Keys : deleteQueue(k)
    \/ \E c \in Callers : QueueDestroyCall(c)
    \/ \E c \in Callers : CallerDone(c)

Next == NextQ /\ UNCHANGED <<svars, rvars, evars, vovars, ivars, fvars, tvars>>

Spec == InitNoPackage /\ [][Next]_vars

\* The calls made: registrations of conforming objects, of objects that lack
\* the methods (plain or wrapped in an ExtractorModel), and of no name;
\* searches for a Track, without options, and for a string with options.
UseInputs ==
    { [name |-> n, plugin |-> p, isModel |-> m, force |-> f] :
        n \in Names, p \in Plugins, m \in BOOLEAN, f \in BOOLEAN }
    \cup { [name |-> "", plugin |-> p, isModel |-> FALSE, force |-> f] :
            p \in Plugins, f \in BOOLEAN }

SearchInputs ==
    { [qkind |-> "string", hasOptions |-> TRUE, engine |-> e, block |-> b, shape |-> q,
       qpl |-> NoPlaylist] :
        e \in Engines, b \in BOOLEAN, q \in QueryShapes }
    \cup { [qkind |-> "track", hasOptions |-> h, engine |-> e, block |-> FALSE,
            shape |-> "ARBITRARY", qpl |-> pl] :
            h \in BOOLEAN, e \in {"absent", "A"}, pl \in {NoPlaylist, QueryPlaylist} }
    \cup { [qkind |-> "string", hasOptions |-> FALSE, engine |-> "absent", block |-> FALSE,
            shape |-> "ARBITRARY", qpl |-> NoPlaylist] }

\* In this specification the registry is set up between searches.
NextS ==
    \/ \E u \in UseInputs :
          srch.pc = "idle" /\ use(u.name, u.plugin, u.isModel, u.force)
    \/ \E name \in Names : srch.pc = "idle" /\ unuse(name)
    \/ \E i \in SearchInputs :
          SearchStart(i.qkind, i.hasOptions, i.engine, i.block, i.shape, i.qpl)
    \/ SearchResumeNamed
    \/ SearchResumeChain
    \/ \E net \in BOOLEAN : SearchResumeBuiltin(net)
    \/ \E net \in BOOLEAN : SearchResumeSecond(net)
    \/ \E ok \in BOOLEAN : SearchResumeInfo(ok)
    \/ SearchDone

NextSearch == NextS /\ UNCHANGED <<qvars, rvars, evars, vovars, ivars, fvars, tvars>>

SpecSearch == Init /\ [][NextSearch]_vars

\* Registrations and removals that run while a search is suspended at an
\* await: the calls made here are searches through the whole chain and
\* registrations of extractors that validate every query.
LivePlugins == { p \in Plugins : p.validate /\ p.handle \in {"empty", "tracks"} }

MayChange == ~InFlight \/ srch.changes < MaxRegistryChanges

NextL ==
    \/ \E name \in Names, p \in LivePlugins : MayChange /\ use(name, p, FALSE, FALSE)
    \/ \E name \in Names : MayChange /\ unuse(name)
    \/ \E e \in {"absent", "AUTO", "SOUNDCLOUD_SEARCH", "YOUTUBE_PLAYLIST"} :
          SearchStart("string", TRUE, e, FALSE, "ARBITRARY", NoPlaylist)
    \/ SearchResumeChain
    \/ \E net \in BOOLEAN : SearchResumeBuiltin(net)
    \/ \E net \in BOOLEAN : SearchResumeSecond(net)
    \/ \E ok \in BOOLEAN : SearchResumeInfo(ok)
    \/ SearchDone

NextSearchLive == NextL /\ UNCHANGED <<qvars, rvars, evars, vovars, ivars, fvars, tvars>>

SpecSearchLive == Init /\ [][NextSearchLive]_vars

\* The registry on its own: registrations and removals, each with its outcome.
NextR ==
    \/ \E u \in UseInputs : UseCall(u.name, u.plugin, u.isModel, u.force)
    \/ \E name \in Names : UnuseCall(name)

NextRegistry == NextR /\ UNCHANGED <<qvars, evars, vovars, ivars, fvars, tvars>>

SpecRegistry == Init /\ [][NextRegistry]_vars

\* The emitter: listeners come and go, events are emitted.
NextE ==
    \/ \E e \in EventNames, l \in ListenerIds : on(e, l)
    \/ \E e \in EventNames, l \in ListenerIds : off(e, l)
    \/ \E e \in EventNames : emit(e)

NextEmit == NextE /\ UNCHANGED <<qvars, svars, rvars, vovars, ivars, fvars, tvars>>

SpecEmit == InitNoPackage /\ [][NextEmit]_vars

\* The voice connections: connect calls that overlap, disconnects, lookups.
NextV ==
    \/ \E p \in Joiners, k \in Keys, h \in BOOLEAN : connect(p, k, h)
    \/ \E p \in Joiners, k \in Keys, h \in BOOLEAN : join(p, k, h)
    \/ \E p \in Joiners, ok \in BOOLEAN : joinResume(p, ok)
    \/ \E p \in Joiners : connectResume(p)
    \/ \E p \in Joiners : connectReturn(p)
    \/ \E d \in BOOLEAN, id \in 1..MaxConns : disconnect(d, id)
    \/ \E k \in Keys : getConnection(k)

NextVoice == NextV /\ UNCHANGED <<qvars, svars, rvars, evars, ivars, fvars, tvars>>

SpecVoice == InitNoPackage /\ [][NextVoice]_vars

\* One task creates and deletes queues while another walks the iterator.
NextI ==
    \/ \E k \in Keys : CallerInvoke(1, k) /\ UNCHANGED iter
    \/ \E o \in OptionChoices : createQueue(1, o) /\ UNCHANGED iter
    \/ \E k \in Keys : deleteQueue(k) /\ UNCHANGED iter
    \/ CallerDone(1) /\ UNCHANGED iter
    \/ IterOpen /\ UNCHANGED qvars
    \/ IterNext /\ UNCHANGED qvars

NextIter == NextI /\ UNCHANGED <<svars, rvars, evars, vovars, fvars, tvars>>

SpecIter == InitNoPackage /\ [][NextIter]_vars

\* Queues are created, members leave and join the channels, time passes.
NextF ==
    \/ \E k \in Keys : CallerInvoke(1, k) /\ UNCHANGED feed
    \/ \E o \in OptionChoices : createQueue(1, o) /\ UNCHANGED feed
    \/ CallerDone(1) /\ UNCHANGED feed
    \/ \E k \in Keys, e \in BOOLEAN : VoiceStateUpdate(k, e)
    \/ \E k \in Keys : Tick(k)

NextIdle == NextF /\ UNCHANGED <<svars, rvars, evars, vovars, ivars, tvars>>

\* Time does pass: the clock of an empty channel is not held back for ever.
\* No fairness is owed to the handler: it is run as part of the update.
TickStep(k) == Tick(k) /\ UNCHANGED <<svars, rvars, evars, vovars, ivars, tvars>>

SpecIdle == InitNoPackage /\ [][NextIdle]_vars /\ \A k \in Keys : WF_vars(TickStep(k))

\* Tracks are constructed and their durationMS is read.
NextTrack == NextT /\ UNCHANGED <<qvars, svars, rvars, evars, vovars, ivars, fvars>>

SpecTrack == InitNoPackage /\ [][NextTrack]_vars

\* escapeMarkdown is called, and called again on what it returned.
NextEscape == NextM /\ UNCHANGED <<qvars, svars, rvars, evars, vovars, ivars, fvars>>

InitEscape ==
    /\ InitQ /\ InitS /\ InitE /\ InitV /\ InitI /\ InitF /\ InitT /\ InitArgs
    /\ extractors = <<>>

SpecEscape == InitEscape /\ [][NextEscape]_vars

----------------------------------------------------------------------------
(* Session table: properties *)

\* The step just taken was the body of createQueue, run by caller c.
CreateQueueStep(c) == callers[c].pc = "ready" /\ callers'[c].pc = "returned"

\* C1: after any createQueue / deleteQueue calls the table holds at most one
\* Session per key (one entry, one instance constructed since the key was
\* last deleted), and createQueue(key) on a key that has a Session returns
\* that instance, constructs nothing and changes neither the table nor any
\* Session's metadata and options, whatever options the call passes.
C1_CreateQueueIdempotent ==
    [][ /\ \A k \in Keys :
              /\ Cardinality({i \in 1..Len(queues') : queues'[i].key = k}) <= 1
              /\ Cardinality(made'[k]) <= 1
        /\ \A c \in Callers :
              (CreateQueueStep(c) /\ MapHas(queues, callers[c].key)) =>
                  /\ callers'[c].ret = MapGet(queues, callers[c].key)
                  /\ queues' = queues
                  /\ qobj' = qobj
                  /\ made' = made ]_vars

\* A second createQueue for a key, passing other options than the Session
\* was created with, has returned the existing Session.
C1_Witness ==
    /\ last.op = "createQueue"
    /\ last.existed
    /\ last.meta # "undefined"
    /\ \E c \in Callers :
          /\ callers[c].pc = "returned" /\ callers[c].key = last.key /\ ~callers[c].stale
          /\ getQueue(queues, last.key) = callers[c].ret
          /\ qobj[callers[c].ret].metadata # last.meta

\* Caller c holds the result of createQueue(k) and no deleteQueue(k) has run since.
HoldsCreated(c, k) ==
    /\ callers[c].pc = "returned"
    /\ callers[c].key = k
    /\ ~callers[c].stale

\* C2: callers that invoke createQueue for the same key concurrently, in any
\* interleaving of their steps, all receive the same Session instance, and
\* exactly one Session is constructed and stored for the key.
C2_ConcurrentCreateSingleton ==
    \A k \in Keys : \A c1 \in Callers :
        HoldsCreated(c1, k) =>
            /\ made[k] = {callers[c1].ret}
            /\ getQueue(queues, k) = callers[c1].ret
            /\ \A c2 \in Callers : HoldsCreated(c2, k) => callers[c2].ret = callers[c1].ret

\* Two callers whose createQueue calls for one key overlapped both hold the
\* one Session.
C2_Witness ==
    \E c1, c2 \in Callers :
        /\ c1 # c2
        /\ HoldsCreated(c1, "g1") /\ HoldsCreated(c2, "g1")
        /\ callers[c1].ret = callers[c2].ret
        /\ last.op = "createQueue" /\ last.existed
        /\ last.meta # qobj[callers[c1].ret].metadata

\* C3: after deleteQueue(key) returns, getQueue(key) returns no Session and
\* the key is absent from the table, whether destroy succeeded or raised.
C3_DeletedNotReachable ==
    (last.op = "deleteQueue" /\ ~last.threw) =>
        /\ ~MapHas(queues, last.key)
        /\ getQueue(queues, last.key) = Undefined

\* deleteQueue has returned for a key whose Session was already destroyed, so
\* that destroy raised inside it.
C3_Witness ==
    /\ last.op = "deleteQueue"
    /\ ~last.threw
    /\ last.existed
    /\ last.caught
    /\ ~MapHas(queues, last.key)

\* C4: deleteQueue is idempotent: a second call, a call for a key that never
\* had a Session and a call for a Session already destroyed raise no error,
\* and a call for a key that is absent leaves the table as it was.
C4_DeleteQueueIdempotent ==
    [][ last'.op = "deleteQueue" =>
            /\ ~last'.threw
            /\ (~MapHas(queues, last'.key) => queues' = queues) ]_vars

\* deleteQueue has run a second time for a key whose Session an earlier
\* deleteQueue removed.
C4_Witness ==
    /\ last.op = "deleteQueue"
    /\ ~last.existed
    /\ last.caught
    /\ ~last.threw
    /\ \E c \in Callers :
          /\ callers[c].pc = "returned"
          /\ callers[c].key = last.key /\ callers[c].stale
          /\ qobj[callers[c].ret].destroyed

----------------------------------------------------------------------------
(* Player.search: properties.  In SpecSearch the registry does not change  *)
(* while a search is in flight: extractors is the registry the search was  *)
(* called with.                                                            *)

\* The search is for a string query and was passed options.
StringSearch(s) == s.pc # "idle" /\ s.cur # "track" /\ s.threw # "INVALID_ARG_TYPE"

\* The options name a registered extractor.
NamesRegistered(s) == IsString(s.engine) /\ MapHas(extractors, s.engine)

Matches(e) == e.conforming /\ e.validate

\* The names, in registration order, of those of the first n entries that match.
RECURSIVE MatchingNames(_, _)
MatchingNames(reg, n) ==
    IF n = 0 THEN <<>>
    ELSE MatchingNames(reg, n - 1) \o (IF Matches(reg[n].val) THEN <<reg[n].key>> ELSE <<>>)

Succeeds(e) == Matches(e) /\ NonEmpty(e.handle)

Range(f) == {f[i] : i \in DOMAIN f}

\* C5: for a string query, no named resolver and fallback not blocked, a
\* search that returns has consulted the resolvers in registration order and
\* returns the items of the first one that matches and resolves non-empty:
\* resolve was invoked on exactly the matching resolvers up to that one, in
\* order, on none after it, and no built-in lookup was made; without such a
\* resolver every matching one was invoked and none is in the result.
C5_ChainFirstNonEmpty ==
    (/\ srch.pc = "done" /\ StringSearch(srch) /\ srch.threw = "none"
     /\ ~NamesRegistered(srch) /\ ~srch.block) =>
        LET good == {i \in 1..Len(extractors) : Succeeds(extractors[i].val)}
        IN  IF good # {}
            THEN LET f == CHOOSE i \in good : \A j \in good : i <= j
                 IN  /\ srch.result.from = extractors[f].key
                     /\ Len(srch.result.tracks) = BuiltinItems
                     /\ (srch.result.playlist # NoPlaylist) = (extractors[f].val.handle = "playlist")
                     /\ srch.hlog = MatchingNames(extractors, f)
                     /\ srch.vlog = [i \in 1..f |-> extractors[i].key]
                     /\ srch.blog = <<>>
            ELSE /\ srch.result.from \notin Names
                 /\ srch.hlog = MatchingNames(extractors, Len(extractors))

\* R1 matched and resolved empty, R2 matched and resolved items: the search
\* returned R2's items.
C5_Witness ==
    /\ srch.pc = "done" /\ StringSearch(srch) /\ srch.threw = "none"
    /\ ~NamesRegistered(srch) /\ ~srch.block
    /\ Len(srch.hlog) = 2
    /\ MapGet(extractors, srch.hlog[1]).handle = "empty"
    /\ srch.result.from = srch.hlog[2]
    /\ Len(srch.result.tracks) = BuiltinItems

\* C6: when the options name a registered resolver, only that resolver is
\* tried: no other resolver's matches or resolve and no built-in lookup is
\* invoked, whatever the named resolver returns.
C6_NamedOnly ==
    (StringSearch(srch) /\ NamesRegistered(srch)) =>
        /\ Range(srch.vlog) \subseteq {srch.engine}
        /\ Range(srch.hlog) \subseteq {srch.engine}
        /\ srch.pc \notin BuiltinPcs
        /\ srch.blog = <<>>

\* C7: when the options name a registered resolver whose matches(query) is
\* false, search completes without error with playlist null and no tracks,
\* and resolve is invoked on no resolver.
C7_NamedNoMatchEmpty ==
    (/\ StringSearch(srch) /\ NamesRegistered(srch)
     /\ MapGet(extractors, srch.engine).conforming
     /\ ~MapGet(extractors, srch.engine).validate) =>
        /\ srch.pc = "done"
        /\ srch.threw = "none"
        /\ srch.result.playlist = NoPlaylist
        /\ srch.result.tracks = <<>>
        /\ srch.hlog = <<>>

\* The named resolver did not match while another registered resolver would
\* have matched and resolved items.
C7_Witness ==
    /\ srch.pc = "done" /\ StringSearch(srch) /\ NamesRegistered(srch)
    /\ MapGet(extractors, srch.engine).conforming
    /\ ~MapGet(extractors, srch.engine).validate
    /\ srch.vlog = <<srch.engine>>
    /\ \E i \in 1..Len(extractors) : Succeeds(extractors[i].val)

\* Some registered resolver matches, and validate fails on none before it.
FirstMatch(reg) ==
    CHOOSE i \in 1..Len(reg) : Matches(reg[i].val) /\ \A j \in 1..(i - 1) : ~Matches(reg[j].val)

HasFirstMatch(reg) ==
    \E i \in 1..Len(reg) :
        Matches(reg[i].val) /\ \A j \in 1..(i - 1) : reg[j].val.conforming /\ ~reg[j].val.validate

\* C8 as stated: with blockExtractor set and no resolver named, the first
\* registered resolver that matches is still attempted, once, and no later
\* resolver is invoked.
C8_BlockedStillTriesFirst ==
    (/\ srch.pc = "done" /\ StringSearch(srch) /\ srch.block
     /\ ~NamesRegistered(srch) /\ HasFirstMatch(extractors)) =>
        srch.hlog = <<extractors[FirstMatch(extractors)].key>>

\* C8, amended: with blockExtractor set and no registered resolver named, no
\* registered resolver is consulted: neither matches nor resolve is invoked
\* on any, and search goes to the built-in selection at once.
C8_BlockedTriesNone ==
    (StringSearch(srch) /\ srch.block /\ ~NamesRegistered(srch)) =>
        /\ srch.vlog = <<>>
        /\ srch.hlog = <<>>
        /\ srch.pc \in BuiltinPcs \cup {"done"}
        /\ srch.result.from \notin Names

\* A blocked search finished while a registered resolver matched the query
\* and would have resolved items.
C8_Witness ==
    /\ srch.pc = "done" /\ StringSearch(srch) /\ srch.block
    /\ ~NamesRegistered(srch)
    /\ HasFirstMatch(extractors)
    /\ Succeeds(extractors[FirstMatch(extractors)].val)
    /\ srch.hlog = <<>>

\* C9: for a string query with valid options no failing lookup makes search
\* fail: a resolve call or a built-in network call that raises or rejects is
\* absorbed, and no error reaches the caller of search.
C9_LookupFailureAbsorbed ==
    StringSearch(srch) => srch.threw # "rejected"

\* C10: a search whose options name a source that is neither a registered
\* resolver nor a built-in kind is rejected with an InvalidArgument error,
\* consulting no resolver and returning no result.
C10_UnknownNamedRejected ==
    (/\ srch.pc = "done" /\ StringSearch(srch)
     /\ IsString(srch.engine) /\ ~MapHas(extractors, srch.engine)) =>
        /\ srch.threw = "INVALID_ARG_TYPE"
        /\ srch.vlog = <<>>

\* C11: a query that is already a Track is returned at once: the result's
\* track list is exactly that Track, with the Track's own playlist or null,
\* whatever the options (missing options included), and no resolver's
\* matches or resolve and no built-in lookup is invoked.
C11_TrackQueryShortCircuit ==
    (srch.pc # "idle" /\ srch.cur = "track") =>
        /\ srch.pc = "done"
        /\ srch.threw = "none"
        /\ srch.result.tracks = <<[item |-> 0, playlist |-> srch.qpl]>>
        /\ srch.result.playlist = srch.qpl
        /\ srch.vlog = <<>> /\ srch.hlog = <<>> /\ srch.blog = <<>>

\* A Track that belongs to a playlist was searched for without options while
\* a resolver that matches every query was registered.
C11_Witness ==
    /\ srch.pc = "done" /\ srch.cur = "track"
    /\ ~srch.hasOptions
    /\ srch.qpl = QueryPlaylist
    /\ \E i \in 1..Len(extractors) : Succeeds(extractors[i].val)

\* C12: in every result that a resolver or a built-in playlist / album case
\* produced with a playlist, each Track of the track list refers back to the
\* returned Playlist, and the Playlist's track sequence is exactly those
\* Tracks, one per source item, in source order.
C12_PlaylistBackReference ==
    (srch.pc = "done" /\ srch.result.from # "query" /\ srch.result.playlist # NoPlaylist) =>
        /\ \A i \in 1..Len(srch.result.tracks) :
              /\ srch.result.tracks[i].playlist = srch.result.playlist
              /\ srch.result.tracks[i].item = i
        /\ Len(srch.result.tracks) = BuiltinItems
        /\ srch.result.pltracks = srch.result.tracks

\* A built-in playlist lookup returned its playlist.
C12_Witness ==
    /\ srch.pc = "done"
    /\ srch.result.from = "YOUTUBE_PLAYLIST"
    /\ srch.result.playlist # NoPlaylist
    /\ Len(srch.result.pltracks) = BuiltinItems

----------------------------------------------------------------------------
(* Extractor registry: properties *)

UseStep == rlast'.op = "use"

UnuseStep == rlast'.op = "unuse"

\* reg2 is reg with the value under name replaced by v, every other entry and
\* the order of the entries as before.
ReplacedIn(reg, reg2, name, v) ==
    /\ Len(reg2) = Len(reg)
    /\ \A i \in 1..Len(reg) :
          /\ reg2[i].key = reg[i].key
          /\ reg2[i].val = IF reg[i].key = name THEN v ELSE reg[i].val

\* C16: use under a name that is already registered, without force, changes
\* nothing in the registry (entries and their order) and returns the entry
\* that is registered; with force, the entry under that name is replaced by
\* the new extractor.
C16_DuplicateUseNoOp ==
    [][ (UseStep /\ MapHas(extractors, rlast'.name)) =>
          IF ~rlast'.force
          THEN /\ extractors' = extractors
               /\ rlast'.threw = "none"
               /\ rlast'.ret = MapGet(extractors, rlast'.name)
          ELSE (rlast'.isModel \/ rlast'.plugin.conforming) =>
                  /\ ReplacedIn(extractors, extractors', rlast'.name, rlast'.plugin)
                  /\ rlast'.threw = "none"
                  /\ rlast'.ret = rlast'.plugin ]_vars

\* use without force was called with a different extractor under a name that
\* is registered, and returned the registered one.
C16_Witness ==
    /\ rlast.op = "use" /\ ~rlast.force /\ rlast.threw = "none"
    /\ MapHas(extractors, rlast.name)
    /\ rlast.ret = MapGet(extractors, rlast.name)
    /\ rlast.plugin # rlast.ret
    /\ Len(extractors) = MaxExtractors

\* C17 (as stated): every use with an object that lacks a required method
\* throws INVALID_EXTRACTOR and leaves the registry as it was, whatever the
\* name and the force flag.  Stated here for the calls that give a name and a
\* plain object, which are among those the statement speaks of.
C17_NonConformingAlwaysRejected ==
    [][ (UseStep /\ rlast'.name # "" /\ ~rlast'.isModel /\ ~rlast'.plugin.conforming) =>
          /\ rlast'.threw = "INVALID_EXTRACTOR"
          /\ extractors' = extractors ]_vars

\* C17 (amended): a use with a plain object (one that is not an ExtractorModel
\* instance) that lacks a required method leaves the registry as it was, for
\* every name, the empty one included, and every value of force.  With an
\* empty name it throws UNKNOWN_EXTRACTOR; with a name that is registered and
\* force not set it returns the registered entry without an error; in every
\* other case it throws INVALID_EXTRACTOR.
C17_NonConformingRejectedUnlessDuplicate ==
    [][ (UseStep /\ ~rlast'.isModel /\ ~rlast'.plugin.conforming) =>
          /\ extractors' = extractors
          /\ IF rlast'.name = ""
             THEN rlast'.threw = "UNKNOWN_EXTRACTOR"
             ELSE IF MapHas(extractors, rlast'.name) /\ ~rlast'.force
             THEN rlast'.threw = "none" /\ rlast'.ret = MapGet(extractors, rlast'.name)
             ELSE rlast'.threw = "INVALID_EXTRACTOR" ]_vars

\* A plain object without the methods was rejected although force was set and
\* the name was registered.
C17_Witness ==
    /\ rlast.op = "use" /\ rlast.force /\ ~rlast.isModel
    /\ ~rlast.plugin.conforming
    /\ rlast.threw = "INVALID_EXTRACTOR"
    /\ MapHas(extractors, rlast.name)

\* C18: unuse of a registered name removes exactly that entry and returns it,
\* the other entries and their order staying as they were; unuse of a name
\* that is not registered throws and leaves the registry as it was.
C18_UnuseRemovesExactly ==
    [][ UnuseStep =>
          IF MapHas(extractors, rlast'.name)
          THEN /\ extractors' = SelectSeq(extractors, LAMBDA e : e.key # rlast'.name)
               /\ Len(extractors') = Len(extractors) - 1
               /\ rlast'.ret = MapGet(extractors, rlast'.name)
               /\ rlast'.threw = "none"
          ELSE /\ extractors' = extractors
               /\ rlast'.threw = "UNKNOWN_EXTRACTOR" ]_vars

\* unuse removed an entry and returned it, and the other entries are still there.
C18_Witness ==
    /\ rlast.op = "unuse" /\ rlast.threw = "none"
    /\ rlast.ret # NoEntry
    /\ Len(extractors) = MaxExtractors - 1
    /\ ~MapHas(extractors, rlast.name)

----------------------------------------------------------------------------
(* Events: properties *)

\* C19: emit of a required event ("error", "connectionError") that has no
\* listener raises the warning, returns false and calls no listener; emit of
\* a required event that has a listener, and of any other event, hands the
\* event to the listeners registered for it, in order, with no warning.
C19_RequiredEventReported ==
    [][ (listeners' = listeners /\ elast'.event # "none") =>
          IF elast'.event \in {"error", "connectionError"} /\ listeners[elast'.event] = <<>>
          THEN /\ elast'.warned
               /\ ~elast'.returned
               /\ elast'.invoked = <<>>
          ELSE /\ ~elast'.warned
               /\ elast'.invoked = listeners[elast'.event]
               /\ elast'.returned = (Len(listeners[elast'.event]) > 0) ]_vars

\* "error" was emitted with no listener of its own while another event had
\* listeners, and was reported.
C19_Witness ==
    /\ elast.event = "error" /\ elast.warned /\ ~elast.returned
    /\ listeners["error"] = <<>>
    /\ listeners["connectionError"] # <<>>
    /\ listeners["trackStart"] # <<>>

----------------------------------------------------------------------------
(* VoiceUtils: properties *)

\* C13: connect for a channel whose id already has a StreamDispatcher in the
\* cache returns that StreamDispatcher, asks for no new connection and leaves
\* the cache as it was.
C13_ConnectIdempotent ==
    [][ \A p \in Joiners :
          (/\ vcalls[p].pc = "idle" /\ vcalls'[p].pc # "idle"
           /\ vcalls'[p].via = "connect"
           /\ vcalls'[p].threw = "none"
           /\ MapHas(cache, vcalls'[p].key)) =>
              /\ conns' = conns
              /\ cache' = cache
              /\ vcalls'[p].pc = "done"
              /\ vcalls'[p].ret = MapGet(cache, vcalls'[p].key) ]_vars

LiveConns(key) == { i \in 1..Len(conns) : conns[i].key = key /\ conns[i].state = "live" }

\* C14: after connect and disconnect calls only (join was never called on
\* its own), once no connect call is in flight, every channel has at most
\* one connection that was requested and not destroyed, and that one belongs
\* to the StreamDispatcher the cache holds for the channel.
C14_OneLiveConnectionPerKey ==
    (/\ \A p \in Joiners : vcalls[p].pc \notin {"join", "joined"}
     /\ \A i \in 1..Len(conns) : conns[i].via = "connect") =>
        \A key \in Keys :
            /\ Cardinality(LiveConns(key)) <= 1
            /\ \A i \in LiveConns(key) :
                  MapHas(cache, key) /\ disps[MapGet(cache, key)].conn = i

\* C15: the cache never holds a StreamDispatcher whose connection has been
\* destroyed: after disconnect, getConnection finds nothing for the channel.
C15_DisconnectClearsCache ==
    \A i \in 1..Len(cache) : conns[disps[cache[i].val].conn].state # "destroyed"

----------------------------------------------------------------------------
(* Iteration: properties *)

\* C20: every Queue the iterator hands out is, at the moment it is handed
\* out, still in the session table, also when deleteQueue runs between two
\* steps of the same iteration.
C20_IterationYieldsLiveOnly ==
    iter.yielded # Undefined => iter.live

----------------------------------------------------------------------------
(* Idle teardown: properties *)

\* C21: a queue whose channel was reported empty and stayed empty until the
\* idle deadline elapsed is eventually destroyed and no longer returned by
\* getQueue for its key.
C21_IdleTeardown ==
    \A k \in Keys :
        (getQueue(queues, k) # Undefined /\ feed.empty[k] /\ feed.elapsed[k] = IdleDeadline)
            ~> (getQueue(queues, k) = Undefined)

----------------------------------------------------------------------------
(* Built-in source selection: properties *)

\* The lookup that belongs to a declared kind: one item by its link for a
\* track or video kind, a text search for a search kind, one playlist lookup
\* for a playlist or album kind.
DeclaredLookup(kind) ==
    CASE kind \in {"YOUTUBE_VIDEO", "SPOTIFY_SONG"} -> "getInfo"
      [] kind = "SOUNDCLOUD_TRACK" -> "getSongInfo"
      [] kind \in {"YOUTUBE_SEARCH", "SOUNDCLOUD_SEARCH"} -> "search"
      [] OTHER -> "getPlaylist"

\* C24: when the options declare a kind of the switch (not AUTO) and the
\* built-in case is reached, the lookup made is the one of the declared
\* kind, whatever kind the query itself would be classified as: a declared
\* track kind looks up the one item and makes no text search, a declared
\* search kind starts with the text search.
C24_DeclaredKindDecides ==
    (srch.pc = "done" /\ srch.engine \in SwitchKinds /\ srch.blog # <<>>) =>
        /\ srch.blog[1] = DeclaredLookup(srch.engine)
        /\ srch.engine = "SOUNDCLOUD_TRACK" => srch.blog = <<"getSongInfo">>

----------------------------------------------------------------------------
(* Playlist construction: properties *)

PlaylistBuilt ==
    srch.pc = "done" /\ srch.result.from # "query" /\ srch.result.playlist # NoPlaylist

\* C25 (as stated): in every playlist path the Playlist's track sequence is
\* empty while each Track is constructed, and is filled only after the last
\* Track has been constructed.
C25_TwoPhaseEverywhere ==
    PlaylistBuilt => \A i \in 1..Len(srch.result.seen) : srch.result.seen[i] = 0

\* C25 (amended): in every playlist path the Playlist is constructed first,
\* with an empty track sequence, and every Track is constructed with its
\* reference to that Playlist; in the extractor, Spotify and YouTube paths the
\* sequence stays empty until all Tracks are constructed, in the SoundCloud
\* playlist path the i-th Track is constructed while the sequence holds the
\* i - 1 Tracks before it; at return the sequence is the Tracks in order.
C25_TwoPhaseExceptSoundCloud ==
    PlaylistBuilt =>
        /\ Len(srch.result.seen) = Len(srch.result.tracks)
        /\ \A i \in 1..Len(srch.result.seen) :
              /\ srch.result.seen[i] =
                    IF srch.result.from = "SOUNDCLOUD_PLAYLIST" THEN i - 1 ELSE 0
              /\ srch.result.tracks[i].playlist = srch.result.playlist
        /\ srch.result.seen[1] = 0
        /\ srch.result.pltracks = srch.result.tracks

\* A SoundCloud playlist was built: its last Track was constructed while the
\* Playlist already held the Tracks before it.
C25_Witness ==
    /\ PlaylistBuilt
    /\ srch.result.from = "SOUNDCLOUD_PLAYLIST"
    /\ Len(srch.result.seen) = BuiltinItems
    /\ srch.result.seen[BuiltinItems] = BuiltinItems - 1

----------------------------------------------------------------------------
(* Extractor calls within one search: properties *)

Occurrences(log, x) == Cardinality({i \in 1..Len(log) : log[i] = x})

\* C27: within one search call handle is invoked at most once on each
\* registered extractor, also when the options name a registered extractor
\* that validates the query and hands back an empty result.
C27_HandleAtMostOnce ==
    \A n \in Names : Occurrences(srch.hlog, n) <= 1

----------------------------------------------------------------------------
(* Registry changes during a search: properties *)

IsPrefix(a, b) == Len(a) <= Len(b) /\ a = SubSeq(b, 1, Len(a))

\* C28: the extractors a search consults, and their order, are those of the
\* registry at the moment search was called: the names validate was invoked
\* on (no extractor being named in the options) are the first names
\* registered at that moment, in that order, whatever use and unuse calls ran
\* while the search was suspended.
C28_ChainIsSnapshot ==
    (srch.pc # "idle" /\ StringSearch(srch) /\ srch.engine = "AUTO") =>
        IsPrefix(srch.vlog, srch.reg0)

----------------------------------------------------------------------------
(* Track.durationMS and escapeMarkdown: properties *)

\* C26: for a duration text of k >= 1 colon-separated non-negative integers
\* c(k-1):...:c1:c0, durationMS is 1000 times the sum of c(i) * 60^i: each
\* unit is worth 60 times the unit to its right, in milliseconds.
C26_DurationMSFormula ==
    (trk.pc = "read" /\ trk.origin = "text") => trk.durationMS = Num(1000 * Seconds(trk.comps))

\* A text of three components with different first and last numbers was read.
C26_Witness ==
    /\ trk.pc = "read"
    /\ trk.origin = "text"
    /\ trk.comps = <<5, 0, 59>>
    /\ trk.durationMS = Num(18059000)

\* C30: the durationMS of every Track that can be constructed, one without a
\* duration in its raw data included, is a non-negative integer and never
\* not-a-number.
C30_DurationMSDefined ==
    trk.pc = "read" => (~trk.durationMS.nan /\ trk.durationMS.v >= 0)

\* C22: for every millisecond value the formatter writes a duration text
\* for, durationMS of the Track built with that text is the value again.
C22_DurationRoundTrip ==
    (trk.pc = "read" /\ trk.origin = "ms") => trk.durationMS = Num(trk.ms)

\* The five marker characters.
Markers == {BT, "*", "_", "~", "|"}

MarkerFree(t) == \A i \in 1..Len(t) : t[i] \notin Markers

\* C29: a raw title without marker characters is stored on the Track as it
\* is: escapeMarkdown with the default options returns such text unchanged.
C29_MarkerFreeTitleUnchanged ==
    (trk.pc # "none" /\ trk.hasTitle /\ MarkerFree(trk.rawTitle)) => trk.title = trk.rawTitle

\* C23: escaping is idempotent: for every text and every set of options,
\* escapeMarkdown of the escaped text is the escaped text.
C23_EscapeIdempotent ==
    esc.pc = "twice" => esc.twice = esc.once

====
